---- MODULE Spec2Model ----
(***************************************************************************)
(* State-machine model of ChatSBOM's core: the exhaustive search crawler   *)
(* (SearchService), the dedup store (Storage), the GitHub API gateway      *)
(* (GitHubService), the pipeline stages and the ref resolver (GitService). *)
(* Each subsystem has its own specification over the shared variables.     *)
(***************************************************************************)
EXTENDS Integers, Sequences, FiniteSets, TLC

(***************************************************************************)
(* Generic helpers                                                         *)
(***************************************************************************)
Min2(a, b) == IF a <= b THEN a ELSE b
Max2(a, b) == IF a >= b THEN a ELSE b
Clamp(x, lo, hi) == Max2(lo, Min2(x, hi))
SetMin(S) == CHOOSE x \in S : \A y \in S : x <= y
SetMax(S) == CHOOSE x \in S : \A y \in S : x >= y

RECURSIVE SumF(_, _)
SumF(f, S) == IF S = {} THEN 0
              ELSE LET x == CHOOSE y \in S : TRUE IN f[x] + SumF(f, S \ {x})

(***************************************************************************)
(* SEARCH CRAWLER  (src/chatsbom/services/search_service.py)               *)
(*                                                                         *)
(* The population is kept as counts: pop[s][d] repositories have s stars   *)
(* and were created on day d.  The repositories of one group are numbered  *)
(* 0 .. pop[s][d]-1; the search source lists a query's matches by stars    *)
(* descending, then day, then number (a fixed deterministic order), so a   *)
(* set of repositories of one group is a set of half-open index intervals. *)
(***************************************************************************)
PER_PAGE  == 100         \* search_repositories(per_page=100), len(items) < 100
LAST_PAGE == 10          \* for page in range(1, 11)
RESULT_CAP == 1000       \* count < 1000 / len(items) >= 1000
LARGE_INT == 999999999   \* min_stars_in_batch initial value
INF == 1000000000        \* float('inf') of Storage.min_stars_seen

DayLen  == 4             \* clock units per calendar day (bound of the model)
MaxRuns == 2             \* runs of the crawler over one output file
MaxStack == 4            \* cap on the time-slice stack

Stars == 1 .. 3
Days  == 1 .. 2
MinStarVals == {1, 2}
NowVals == {DayLen + 1, DayLen + 2}      \* datetime.now(), inside day 2
\* creation profiles of one star value: repositories per day
Profiles == { <<0, 0>>, <<1, 0>>, <<0, 2>>, <<600, 0>>, <<600, 600>>, <<0, 1000>> }
Groups == Stars \X Days

VARIABLES
  pop,                 \* the fixed population behind the search source
  min_stars,           \* SearchService.min_stars
  current_max_stars,   \* SearchService.current_max_stars: <<>> is None, <<n>> is n
  spc,                 \* position of SearchService.run
  page,                \* page number of the page loop
  batch_count,         \* len(batch_items)
  min_stars_in_batch,  \* local of run
  stack,               \* _process_time_slice's stack of (s, e)
  slice_stars,         \* _process_time_slice's stars argument
  out_file,            \* output file: ids present, per group (index intervals)
  out_lines,           \* output file: number of lines, per group
  visited_ids,         \* Storage.visited_ids of the crawler's store
  min_stars_seen,      \* Storage.min_stars_seen
  runs                 \* runs started so far

searchVars == << pop, min_stars, current_max_stars, spc, page, batch_count,
                 min_stars_in_batch, stack, slice_stars, out_file, out_lines,
                 visited_ids, min_stars_seen, runs >>

\* ---- interval sets (sets of ids of one group) -------------------------
Size(S) == SumF([i \in S |-> i[2] - i[1]], S)
Covered(S, a, b) ==
  SumF([i \in S |-> Max2(0, Min2(b, i[2]) - Max2(a, i[1]))], S)
AddInterval(S, a, b) ==
  IF a >= b THEN S
  ELSE LET T == {i \in S : i[1] <= b /\ a <= i[2]}
           lo == SetMin({a} \cup {i[1] : i \in T})
           hi == SetMax({b} \cup {i[2] : i \in T})
       IN (S \ T) \cup {<<lo, hi>>}

\* ---- the search source ------------------------------------------------
\* a query: star range lo..hi and creation-day range dlo..dhi, inclusive
Matches(q, g) == /\ q.lo <= g[1] /\ g[1] <= q.hi
                 /\ q.dlo <= g[2] /\ g[2] <= q.dhi
MatchCount(q, g) == IF Matches(q, g) THEN pop[g[1]][g[2]] ELSE 0
Precedes(h, g) == h[1] > g[1] \/ (h[1] = g[1] /\ h[2] < g[2])
Before(q, g) ==
  SumF([h \in Groups |-> IF Precedes(h, g) THEN MatchCount(q, h) ELSE 0], Groups)
Total(q) == SumF([g \in Groups |-> MatchCount(q, g)], Groups)
\* the slice of group g on page p of query q, as an index interval <<lo, hi>>
PageSlice(q, p, g) ==
  LET a == Before(q, g)
      n == MatchCount(q, g)
  IN << Clamp(PER_PAGE * (p - 1) - a, 0, n), Clamp(PER_PAGE * p - a, 0, n) >>
PageLen(q, p) == Clamp(Total(q) - PER_PAGE * (p - 1), 0, PER_PAGE)
PageMinStars(q, p) ==
  SetMin({g[1] : g \in {h \in Groups : PageSlice(q, p, h)[2] > PageSlice(q, p, h)[1]}})

\* ---- Storage as the crawler uses it -----------------------------------
\* Storage.save over the items sl[g] of a page or a leaf: an id already in
\* visited_ids is not written again
SaveVisited(vis, sl) ==
  [g \in Groups |-> AddInterval(vis[g], sl[g][1], sl[g][2])]
SaveNew(vis, sl) ==
  [g \in Groups |-> (sl[g][2] - sl[g][1]) - Covered(vis[g], sl[g][1], sl[g][2])]
SaveFile(file, vis, sl) ==
  [g \in Groups |-> IF SaveNew(vis, sl)[g] > 0
                    THEN AddInterval(file[g], sl[g][1], sl[g][2]) ELSE file[g]]
\* Storage._load_existing: the ids and the least star count of the file
LoadVisited(file) == file
LoadMinStars(file) ==
  LET S == {g[1] : g \in {h \in Groups : file[h] # {}}}
  IN IF S = {} THEN INF ELSE SetMin(S)

\* ---- SearchService ----------------------------------------------------
StarQuery ==
  IF current_max_stars = <<>>
  THEN [lo |-> min_stars + 1, hi |-> SetMax(Stars), dlo |-> 1, dhi |-> 2]
  ELSE [lo |-> min_stars, hi |-> current_max_stars[1], dlo |-> 1, dhi |-> 2]
DayOf(t) == (t \div DayLen) + 1
SliceQuery(s, e) ==
  [lo |-> slice_stars, hi |-> slice_stars, dlo |-> DayOf(s), dhi |-> DayOf(e)]

SearchInitVars ==
  /\ pop \in [Stars -> Profiles]
  /\ min_stars \in MinStarVals
  /\ current_max_stars = <<>>
  /\ spc = "start"
  /\ page = 1
  /\ batch_count = 0
  /\ min_stars_in_batch = LARGE_INT
  /\ stack = <<>>
  /\ slice_stars = 0
  /\ out_file = [g \in Groups |-> {}]
  /\ out_lines = [g \in Groups |-> 0]
  /\ visited_ids = [g \in Groups |-> {}]
  /\ min_stars_seen = INF
  /\ runs = 1

\* run, lines 37-45: the early return when the file already reaches min_stars
RunStart ==
  /\ spc = "start"
  /\ spc' = IF min_stars_seen <= min_stars THEN "done" ELSE "page"
  /\ page' = 1
  /\ batch_count' = 0
  /\ min_stars_in_batch' = LARGE_INT
  /\ UNCHANGED << pop, min_stars, current_max_stars, stack, slice_stars,
                  out_file, out_lines, visited_ids, min_stars_seen, runs >>

\* run, lines 61-88: one iteration of the page loop
SearchPage ==
  /\ spc = "page"
  /\ LET q  == StarQuery
         n  == PageLen(q, page)
         sl == [g \in Groups |-> PageSlice(q, page, g)]
     IN IF n = 0
        THEN /\ spc' = "decide"
             /\ UNCHANGED << page, batch_count, min_stars_in_batch,
                             out_file, out_lines, visited_ids >>
        ELSE /\ batch_count' = batch_count + n
             /\ min_stars_in_batch' = Min2(min_stars_in_batch, PageMinStars(q, page))
             /\ visited_ids' = SaveVisited(visited_ids, sl)
             /\ out_file' = SaveFile(out_file, visited_ids, sl)
             /\ out_lines' = [g \in Groups |-> out_lines[g] + SaveNew(visited_ids, sl)[g]]
             /\ IF n < PER_PAGE \/ page = LAST_PAGE
                THEN spc' = "decide" /\ page' = page
                ELSE spc' = "page" /\ page' = page + 1
  /\ UNCHANGED << pop, min_stars, current_max_stars, stack, slice_stars,
                  min_stars_seen, runs >>

\* run, lines 120-121 (and the restart of the while loop)
AfterBatch(newMax) ==
  /\ current_max_stars' = newMax
  /\ spc' = IF newMax # <<>> /\ newMax[1] < min_stars THEN "done" ELSE "page"
  /\ page' = 1
  /\ batch_count' = 0
  /\ min_stars_in_batch' = LARGE_INT

\* run, lines 98-121: what a finished batch decides
Decide ==
  /\ spc = "decide"
  /\ IF batch_count = 0
     THEN /\ spc' = "done"
          /\ UNCHANGED << current_max_stars, page, batch_count,
                          min_stars_in_batch, stack, slice_stars >>
     ELSE IF batch_count < RESULT_CAP
     THEN IF current_max_stars = <<>> \/ min_stars_in_batch <= min_stars
          THEN /\ spc' = "done"
               /\ UNCHANGED << current_max_stars, page, batch_count,
                               min_stars_in_batch, stack, slice_stars >>
          ELSE /\ AfterBatch(<< min_stars_in_batch - 1 >>)
               /\ UNCHANGED << stack, slice_stars >>
     ELSE IF current_max_stars # <<>> /\ min_stars_in_batch = current_max_stars[1]
          THEN \E now \in NowVals :
               /\ spc' = "slice"
               /\ slice_stars' = min_stars_in_batch
               /\ stack' = << <<0, now>> >>
               /\ UNCHANGED << current_max_stars, page, batch_count,
                               min_stars_in_batch >>
          ELSE /\ AfterBatch(<< min_stars_in_batch >>)
               /\ UNCHANGED << stack, slice_stars >>
  /\ UNCHANGED << pop, min_stars, out_file, out_lines, visited_ids,
                  min_stars_seen, runs >>

\* _process_time_slice, lines 143-172: one iteration of the stack loop
SliceStep ==
  /\ spc = "slice"
  /\ stack # <<>>
  /\ LET top  == stack[Len(stack)]
         rest == SubSeq(stack, 1, Len(stack) - 1)
         s    == top[1]
         e    == top[2]
         q    == SliceQuery(s, e)
         n    == Min2(Total(q), RESULT_CAP)
         mid  == s + ((e - s) \div 2)
         sl   == [g \in Groups |-> << 0, MatchCount(q, g) >>]
     IN IF n >= RESULT_CAP
        THEN /\ Len(rest) + 2 <= MaxStack
             /\ stack' = rest \o << <<mid + 1, e>>, <<s, mid>> >>
             /\ UNCHANGED << out_file, out_lines, visited_ids >>
        ELSE /\ stack' = rest
             /\ visited_ids' = SaveVisited(visited_ids, sl)
             /\ out_file' = SaveFile(out_file, visited_ids, sl)
             /\ out_lines' = [g \in Groups |-> out_lines[g] + SaveNew(visited_ids, sl)[g]]
  /\ UNCHANGED << pop, min_stars, current_max_stars, spc, page, batch_count,
                  min_stars_in_batch, slice_stars, min_stars_seen, runs >>

\* mutant: the ceiling stays at the sliced value
SliceReturn_SameCeiling ==
  /\ spc = "slice"
  /\ stack = <<>>
  /\ AfterBatch(<< slice_stars >>)
  /\ UNCHANGED << pop, min_stars, stack, slice_stars, out_file, out_lines,
                  visited_ids, min_stars_seen, runs >>
\* run, line 116 and 120-121: back from _process_time_slice
SliceReturn ==
  /\ spc = "slice"
  /\ stack = <<>>
  /\ AfterBatch(<< slice_stars - 1 >>)
  /\ UNCHANGED << pop, min_stars, stack, slice_stars, out_file, out_lines,
                  visited_ids, min_stars_seen, runs >>

\* a later run over the same output file: SearchService.__init__ builds a
\* new Storage, whose _load_existing replays the file
NewRun ==
  /\ spc = "done"
  /\ runs < MaxRuns
  /\ runs' = runs + 1
  /\ \E m \in MinStarVals : min_stars' = m
  /\ current_max_stars' = <<>>
  /\ spc' = "start"
  /\ page' = 1
  /\ batch_count' = 0
  /\ min_stars_in_batch' = LARGE_INT
  /\ stack' = <<>>
  /\ slice_stars' = 0
  /\ visited_ids' = LoadVisited(out_file)
  /\ min_stars_seen' = LoadMinStars(out_file)
  /\ UNCHANGED << pop, out_file, out_lines >>

\* ---- populations with a crowded day ------------------------------------
\* more repositories of one popularity value created on one day than one
\* query returns
WallPops == { << <<1, 0>>, <<0, 1200>>, <<600, 0>> >>,
              << <<1, 0>>, <<600, 600>>, <<600, 0>> >>,
              << <<0, 2>>, <<600, 0>>, <<600, 600>> >> }
SearchInitWall ==
  /\ pop \in WallPops
  /\ min_stars \in MinStarVals
  /\ current_max_stars = <<>>
  /\ spc = "start"
  /\ page = 1
  /\ batch_count = 0
  /\ min_stars_in_batch = LARGE_INT
  /\ stack = <<>>
  /\ slice_stars = 0
  /\ out_file = [g \in Groups |-> {}]
  /\ out_lines = [g \in Groups |-> 0]
  /\ visited_ids = [g \in Groups |-> {}]
  /\ min_stars_seen = INF
  /\ runs = 1

\* ---- a source that fails, a process that is killed ---------------------
\* populations of the runs whose search source may fail
CrawlPops == { << <<1, 0>>, <<600, 0>>, <<600, 600>> >>,
               << <<0, 2>>, <<600, 600>>, <<600, 600>> >>,
               << <<1, 0>>, <<0, 2>>, <<600, 0>> >> }
\* what an HTTPError of search_repositories makes the page loop do
ApiErrors == { "rate_limit", "other" }
MaxErrPage == 2        \* the source fails on the first pages of a query only

\* run, lines 90-96: search_repositories raised requests.HTTPError.  A 403
\* or 429 waits in _handle_rate_limit and continues with the NEXT page of
\* the for loop; any other status leaves the page loop.
PageFails(err) ==
  /\ spc = "page"
  /\ page <= MaxErrPage
  /\ IF err = "rate_limit" /\ page < LAST_PAGE
     THEN spc' = "page" /\ page' = page + 1
     ELSE spc' = "decide" /\ page' = page
  /\ UNCHANGED << pop, min_stars, current_max_stars, batch_count,
                  min_stars_in_batch, stack, slice_stars, out_file, out_lines,
                  visited_ids, min_stars_seen, runs >>
SearchPageError == \E err \in ApiErrors : PageFails(err)

\* the process is killed between two requests (or an exception leaves run
\* from _process_time_slice, which catches nothing): what was saved stays
RunKilled ==
  /\ spc \in {"page", "decide", "slice"}
  /\ spc' = "done"
  /\ UNCHANGED << pop, min_stars, current_max_stars, page, batch_count,
                  min_stars_in_batch, stack, slice_stars, out_file, out_lines,
                  visited_ids, min_stars_seen, runs >>

(***************************************************************************)
(* DEDUP STORE  (src/chatsbom/core/storage.py)                             *)
(*                                                                         *)
(* The store of a pipeline stage, with the records themselves: the file is *)
(* a sequence of lines, an item is the dict handed to save.                *)
(***************************************************************************)
MaxCalls == 3            \* save calls in one history

ItemIds   == {1, 2}
ItemNames == {"a/x", "b/y"}
ItemStars == {5, 7}
\* the dicts of the search API: the star count under its alias
Items == [id : ItemIds, full_name : ItemNames, stargazers_count : ItemStars]

VARIABLES
  st_lines,            \* the lines of Storage.filepath
  st_visited_ids,      \* Storage.visited_ids
  st_min_stars_seen,   \* Storage.min_stars_seen
  save_log             \* history: the save calls made, <<id, returned>>

storeVars == << st_lines, st_visited_ids, st_min_stars_seen, save_log >>

\* Repository.model_validate: populate_by_name, alias stargazers_count
Validate(item) ==
  [id |-> item.id, full_name |-> item.full_name,
   stars |-> IF "stargazers_count" \in DOMAIN item THEN item.stargazers_count
             ELSE IF "stars" \in DOMAIN item THEN item.stars ELSE 0]
\* repo.model_dump_json(exclude_none=True): fields under their own names
DumpLine(repo) == [id |-> repo.id, full_name |-> repo.full_name, stars |-> repo.stars]
\* Repository.model_validate_json(line)
ParseLine(line) == Validate(line)
\* mutant: the membership test never finds the id
IsVisited_Never(ids, repo) == FALSE
\* save, line 53: repo.id in self.visited_ids
IsVisited(ids, repo) == repo.id \in ids
\* what a write that was cut off leaves in the file: the beginning of a
\* record without its newline (ended = FALSE); the next append follows it
\* on the same line and ends it (ended = TRUE)
TornLine(ended) == [torn |-> TRUE, ended |-> ended]
\* model_validate_json raises on such a line
Parses(line) == "torn" \notin DOMAIN line
EndsOpen(lines) ==
  /\ lines # <<>>
  /\ ~Parses(lines[Len(lines)])
  /\ ~lines[Len(lines)].ended
\* open(filepath, 'a'); f.write(line + '\n'); f.flush()
WriteLine(lines, line) ==
  IF EndsOpen(lines) THEN [lines EXCEPT ![Len(lines)] = TornLine(TRUE)]
  ELSE Append(lines, line)
\* the same write, cut off by the kill before the newline
WriteTorn(lines) ==
  IF EndsOpen(lines) THEN lines ELSE Append(lines, TornLine(FALSE))
\* _load_existing: a line that does not parse is passed over (lines 38-39)
GoodLines(lines) == { i \in 1 .. Len(lines) : Parses(lines[i]) }
LoadIds(lines) == {ParseLine(lines[i]).id : i \in GoodLines(lines)}
LoadMin(lines) ==
  IF GoodLines(lines) = {} THEN INF
  ELSE SetMin({ParseLine(lines[i]).stars : i \in GoodLines(lines)})

StoreInitVars ==
  /\ st_lines = <<>>
  /\ st_visited_ids = {}
  /\ st_min_stars_seen = INF
  /\ save_log = <<>>

\* mutant: save keeps min_stars_seen up to date with the record it writes
StoreSave_TracksMin ==
  /\ Len(save_log) < MaxCalls
  /\ \E item \in Items :
       LET repo == Validate(item)
       IN IF IsVisited(st_visited_ids, repo)
          THEN /\ save_log' = Append(save_log, << repo.id, FALSE >>)
               /\ UNCHANGED << st_lines, st_visited_ids, st_min_stars_seen >>
          ELSE /\ st_visited_ids' = st_visited_ids \cup {repo.id}
               /\ st_lines' = WriteLine(st_lines, DumpLine(repo))
               /\ save_log' = Append(save_log, << repo.id, TRUE >>)
               /\ st_min_stars_seen' = Min2(st_min_stars_seen, repo.stars)
\* Storage.save, called by one caller at a time
StoreSave ==
  /\ Len(save_log) < MaxCalls
  /\ \E item \in Items :
       LET repo == Validate(item)
       IN IF IsVisited(st_visited_ids, repo)
          THEN /\ save_log' = Append(save_log, << repo.id, FALSE >>)
               /\ UNCHANGED << st_lines, st_visited_ids >>
          ELSE /\ st_visited_ids' = st_visited_ids \cup {repo.id}
               /\ st_lines' = WriteLine(st_lines, DumpLine(repo))
               /\ save_log' = Append(save_log, << repo.id, TRUE >>)
  /\ UNCHANGED st_min_stars_seen

\* the process is killed inside save's write of a new record; the next
\* process constructs a Storage over the file
StoreKilledInSave ==
  /\ \E item \in Items :
       /\ ~IsVisited(st_visited_ids, Validate(item))
       /\ st_lines' = WriteTorn(st_lines)
  /\ st_visited_ids' = LoadIds(st_lines')
  /\ st_min_stars_seen' = LoadMin(st_lines')
  /\ UNCHANGED save_log

\* Storage.save of a new record whose append raises (OSError from open, write
\* or flush): the id was added at line 56, the exception leaves save before
\* it returns; the file is as it was, or holds the beginning of the line
AppendRaises(item) ==
  /\ ~IsVisited(st_visited_ids, Validate(item))
  /\ st_visited_ids' = st_visited_ids \cup {Validate(item).id}
  /\ \E written \in BOOLEAN :
       st_lines' = IF written THEN WriteTorn(st_lines) ELSE st_lines
  /\ UNCHANGED << st_min_stars_seen, save_log >>
StoreSaveRaised == \E item \in Items : AppendRaises(item)

\* Storage.__init__ over the same file (a later run)
StoreReopen ==
  /\ st_lines # <<>>
  /\ st_visited_ids' = LoadIds(st_lines)
  /\ st_min_stars_seen' = LoadMin(st_lines)
  /\ UNCHANGED << st_lines, save_log >>

(***************************************************************************)
(* PIPELINE STAGE  (src/chatsbom/commands/github/{repo,commit,content}.py) *)
(*                                                                         *)
(* One stage run: a pool of workers maps process_single_repo over the      *)
(* input records; the store is the Storage above.  A worker's save is four *)
(* steps (membership test, insertion, open, write): the code holds no lock *)
(* around them.                                                            *)
(***************************************************************************)
MaxInput     == 2        \* records in the input file
MaxStageRuns == 2        \* runs of the stage over the same input and output

StageWorkers == {"w1", "w2"}
StageNames == {"repo", "commit", "content"}
\* the Repository objects load_jsonl returns (two of them share owner/name)
InputRepos == { [id |-> 1, full_name |-> "a/x", stars |-> 5],
                [id |-> 2, full_name |-> "b/y", stars |-> 5],
                [id |-> 2, full_name |-> "a/x", stars |-> 7] }
InputLists == UNION { [1 .. n -> InputRepos] : n \in 1 .. MaxInput }
\* what one gateway call for repository metadata can end in
GatewayOutcomes == {"ok", "not_found", "http_error", "breaker"}
\* what GitService.resolve_ref hands to CommitService.process_repo
ResolveOutcomes == {"sha_live", "sha_cached", "none_live", "none_cached", "raised"}
\* what ContentService.process_repo ends in
ContentOutcomes == {"content", "none", "raised"}

VARIABLES
  stage,               \* which command runs
  force,               \* its --force option
  input,               \* repos = load_jsonl(input_path)
  next_idx,            \* next input record the executor hands to a worker
  wpc,                 \* position of each worker in process_single_repo
  widx,                \* the input record each worker holds
  wout,                \* the dict its transform returned
  stats,               \* the stage's BaseStats
  repo_cache,          \* RepoService's cache files: owner/name -> cached id, 0 none
  stage_pc,            \* "running" or "finished"
  stage_run,           \* number of the current run
  prev_ids,            \* history: ids in the output file when this run began
  prev_len,            \* history: lines in the output file when this run began
  forced_before,       \* history: an earlier run had --force
  transformed,         \* history: input records handed to the transform this run
  outcome,             \* history: how each input record ended this run
  breaker_tripped      \* history: the circuit breaker tripped in this run

stageVars == << stage, force, input, next_idx, wpc, widx, wout, stats, repo_cache,
                stage_pc, stage_run, prev_ids, prev_len, forced_before,
                transformed, outcome, breaker_tripped >>

ZeroStats == [skipped |-> 0, failed |-> 0, enriched |-> 0, api_requests |-> 0,
              cache_hits |-> 0, downloaded_files |-> 0]
Inc(st, field) == [st EXCEPT ![field] = @ + 1]

\* mutant: a record that fails is not counted
CountFailure_Dropped(st) == st
\* stats.inc_failed(), in the transform or in process_single_repo's handler
CountFailure(st) == Inc(st, "failed")

\* mutant: the visited index is not consulted
ShouldSkip_Never(frc, ids, repo) == FALSE
\* process_single_repo: not force and repo.id in storage.visited_ids
ShouldSkip(frc, ids, repo) == ~frc /\ repo.id \in ids

\* GitHubService.get_repository_metadata: the dict, or None; a
\* requests.RequestException (HTTP error, circuit breaker) is logged and
\* turned into None
GetRepositoryMetadata(resp) == IF resp = "ok" THEN "dict" ELSE "None"

\* repository.model_dump(mode='json')
ModelDump(repo) == [id |-> repo.id, full_name |-> repo.full_name, stars |-> repo.stars]

StageInitVars ==
  /\ stage \in StageNames
  /\ force \in BOOLEAN
  /\ input \in InputLists
  /\ next_idx = 1
  /\ wpc = [w \in StageWorkers |-> "idle"]
  /\ widx = [w \in StageWorkers |-> 0]
  /\ wout = [w \in StageWorkers |-> <<>>]
  /\ stats = ZeroStats
  /\ repo_cache = [n \in ItemNames |-> 0]
  /\ stage_pc = "running"
  /\ stage_run = 1
  /\ prev_ids = {}
  /\ prev_len = 0
  /\ forced_before = FALSE
  /\ transformed = {}
  /\ outcome = [i \in DOMAIN input |-> "none"]
  /\ breaker_tripped = FALSE

\* executor.map: a free worker takes the next input record
Dispatch(w) ==
  /\ stage_pc = "running"
  /\ wpc[w] = "idle"
  /\ next_idx <= Len(input)
  /\ widx' = [widx EXCEPT ![w] = next_idx]
  /\ next_idx' = next_idx + 1
  /\ wpc' = [wpc EXCEPT ![w] = "check"]
  /\ UNCHANGED << stage, force, input, wout, stats, repo_cache, stage_pc, stage_run,
                  prev_ids, prev_len, forced_before, transformed, outcome,
                  breaker_tripped, storeVars >>

\* process_single_repo returns: the worker is free again
Release(w) ==
  /\ wpc' = [wpc EXCEPT ![w] = "idle"]
  /\ widx' = [widx EXCEPT ![w] = 0]
  /\ wout' = [wout EXCEPT ![w] = <<>>]

\* process_single_repo: the skip test
CheckVisited(w) ==
  /\ wpc[w] = "check"
  /\ IF ShouldSkip(force, st_visited_ids, input[widx[w]])
     THEN /\ stats' = Inc(stats, "skipped")
          /\ outcome' = [outcome EXCEPT ![widx[w]] = "skipped"]
          /\ Release(w)
          /\ UNCHANGED transformed
     ELSE /\ wpc' = [wpc EXCEPT ![w] = "transform"]
          /\ transformed' = transformed \cup {widx[w]}
          /\ UNCHANGED << stats, outcome, widx, wout >>
  /\ UNCHANGED << stage, force, input, next_idx, repo_cache, stage_pc,
                  stage_run, prev_ids, prev_len, forced_before, breaker_tripped,
                  storeVars >>

\* a transform that returned a dict: on to storage.save
Returned(w, d) ==
  /\ wout' = [wout EXCEPT ![w] = d]
  /\ wpc' = [wpc EXCEPT ![w] = "save_check"]
  /\ UNCHANGED << outcome, widx >>
\* a transform that ended the record without a dict
Ended(w, how) ==
  /\ outcome' = [outcome EXCEPT ![widx[w]] = how]
  /\ Release(w)

\* RepoService.process_repo
TransformRepo(w) ==
  /\ stage = "repo"
  /\ wpc[w] = "transform"
  /\ LET repo == input[widx[w]]
     IN IF repo_cache[repo.full_name] # 0
        THEN \* the cache file of owner/name is returned as the enriched record
             /\ stats' = Inc(stats, "cache_hits")
             /\ Returned(w, [ModelDump(repo) EXCEPT !.id = repo_cache[repo.full_name]])
             /\ UNCHANGED << repo_cache, breaker_tripped >>
        ELSE \E resp \in GatewayOutcomes :
             /\ breaker_tripped' = (breaker_tripped \/ resp = "breaker")
             /\ IF GetRepositoryMetadata(resp) = "dict"
                THEN /\ repo_cache' = [repo_cache EXCEPT ![repo.full_name] = repo.id]
                     /\ stats' = Inc(Inc(stats, "api_requests"), "enriched")
                     /\ Returned(w, ModelDump(repo))
                ELSE /\ stats' = CountFailure(Inc(stats, "api_requests"))
                     /\ Ended(w, "failed")
                     /\ UNCHANGED repo_cache
  /\ UNCHANGED << stage, force, input, next_idx, stage_pc, stage_run,
                  prev_ids, prev_len, forced_before, transformed, storeVars >>

\* CommitService.process_repo
TransformCommit(w) ==
  /\ stage = "commit"
  /\ wpc[w] = "transform"
  /\ \E r \in ResolveOutcomes :
       LET counted == IF r \in {"sha_cached", "none_cached"}
                      THEN Inc(stats, "cache_hits")
                      ELSE IF r = "raised" THEN stats
                      ELSE Inc(stats, "api_requests")
       IN IF r \in {"sha_live", "sha_cached"}
          THEN /\ stats' = Inc(counted, "enriched")
               /\ Returned(w, ModelDump(input[widx[w]]))
          ELSE /\ stats' = CountFailure(counted)
               /\ Ended(w, "failed")
  /\ UNCHANGED << stage, force, input, next_idx, repo_cache, stage_pc,
                  stage_run, prev_ids, prev_len, forced_before, transformed,
                  breaker_tripped, storeVars >>

\* ContentService.process_repo and the lines of process_single_repo after it
TransformContent(w) ==
  /\ stage = "content"
  /\ wpc[w] = "transform"
  /\ \E r \in ContentOutcomes :
       IF r = "content"
       THEN /\ Returned(w, ModelDump(input[widx[w]]))
            /\ UNCHANGED stats
       ELSE /\ stats' = CountFailure(stats)
            /\ Ended(w, "failed")
  /\ UNCHANGED << stage, force, input, next_idx, repo_cache, stage_pc,
                  stage_run, prev_ids, prev_len, forced_before, transformed,
                  breaker_tripped, storeVars >>

\* the end of process_single_repo after storage.save returned
AfterSave(w, how) ==
  /\ outcome' = [outcome EXCEPT ![widx[w]] = how]
  /\ Release(w)
  /\ stats' = IF stage = "content" THEN Inc(stats, "downloaded_files") ELSE stats

\* Storage.save, line 53
SaveCheck(w) ==
  /\ wpc[w] = "save_check"
  /\ IF IsVisited(st_visited_ids, Validate(wout[w]))
     THEN AfterSave(w, "not_new")
     ELSE /\ wpc' = [wpc EXCEPT ![w] = "save_add"]
          /\ UNCHANGED << outcome, stats, widx, wout >>
  /\ UNCHANGED << stage, force, input, next_idx, repo_cache, stage_pc,
                  stage_run, prev_ids, prev_len, forced_before, transformed,
                  breaker_tripped, storeVars >>

\* Storage.save, line 56
SaveAdd(w) ==
  /\ wpc[w] = "save_add"
  /\ st_visited_ids' = st_visited_ids \cup {Validate(wout[w]).id}
  /\ wpc' = [wpc EXCEPT ![w] = "save_open"]
  /\ UNCHANGED << stage, force, input, next_idx, widx, wout, stats, repo_cache,
                  stage_pc, stage_run, prev_ids, prev_len, forced_before,
                  transformed, outcome, breaker_tripped,
                  st_lines, st_min_stars_seen, save_log >>

\* Storage.save, line 58: the file is open for append
SaveOpen(w) ==
  /\ wpc[w] = "save_open"
  /\ wpc' = [wpc EXCEPT ![w] = "save_write"]
  /\ UNCHANGED << stage, force, input, next_idx, widx, wout, stats, repo_cache,
                  stage_pc, stage_run, prev_ids, prev_len, forced_before,
                  transformed, outcome, breaker_tripped, storeVars >>

\* Storage.save, lines 59-61
SaveWrite(w) ==
  /\ wpc[w] = "save_write"
  /\ st_lines' = WriteLine(st_lines, DumpLine(Validate(wout[w])))
  /\ AfterSave(w, "saved")
  /\ UNCHANGED << stage, force, input, next_idx, repo_cache, stage_pc,
                  stage_run, prev_ids, prev_len, forced_before, transformed,
                  breaker_tripped, st_visited_ids, st_min_stars_seen, save_log >>

\* the executor's with-block ends: every record was handled
RunEnd ==
  /\ stage_pc = "running"
  /\ next_idx > Len(input)
  /\ \A w \in StageWorkers : wpc[w] = "idle"
  /\ stage_pc' = "finished"
  /\ UNCHANGED << stage, force, input, next_idx, wpc, widx, wout, stats, repo_cache,
                  stage_run, prev_ids, prev_len, forced_before, transformed,
                  outcome, breaker_tripped, storeVars >>

\* the same command again, on the same input and output files
NextRun ==
  /\ stage_pc = "finished"
  /\ stage_run < MaxStageRuns
  /\ stage_run' = stage_run + 1
  /\ force' \in BOOLEAN
  /\ forced_before' = (forced_before \/ force)
  /\ stage_pc' = "running"
  /\ next_idx' = 1
  /\ stats' = ZeroStats
  /\ st_visited_ids' = LoadIds(st_lines)
  /\ st_min_stars_seen' = LoadMin(st_lines)
  /\ prev_ids' = LoadIds(st_lines)
  /\ prev_len' = Len(st_lines)
  /\ transformed' = {}
  /\ outcome' = [i \in DOMAIN input |-> "none"]
  /\ breaker_tripped' = FALSE
  /\ UNCHANGED << stage, input, wpc, widx, wout, repo_cache, st_lines, save_log >>

StageNext ==
  \/ \E w \in StageWorkers :
       \/ Dispatch(w)
       \/ CheckVisited(w)
       \/ TransformRepo(w)
       \/ TransformCommit(w)
       \/ TransformContent(w)
       \/ SaveCheck(w)
       \/ SaveAdd(w)
       \/ SaveOpen(w)
       \/ SaveWrite(w)
  \/ RunEnd
  \/ NextRun

\* the stage idle, for the specifications that do not run it
StageIdle ==
  /\ stage = "repo"
  /\ force = FALSE
  /\ input = <<>>
  /\ next_idx = 1
  /\ wpc = [w \in StageWorkers |-> "idle"]
  /\ widx = [w \in StageWorkers |-> 0]
  /\ wout = [w \in StageWorkers |-> <<>>]
  /\ stats = ZeroStats
  /\ repo_cache = [n \in ItemNames |-> 0]
  /\ stage_pc = "idle"
  /\ stage_run = 1
  /\ prev_ids = {}
  /\ prev_len = 0
  /\ forced_before = FALSE
  /\ transformed = {}
  /\ outcome = <<>>
  /\ breaker_tripped = FALSE

(***************************************************************************)
(* GITHUB GATEWAY  (src/chatsbom/services/github_service.py)               *)
(*                                                                         *)
(* One caller at a time.  Time is in whole seconds.  A gateway call tests  *)
(* the response cache; on a hit it goes to the session directly, otherwise *)
(* through the pool's throttle (@sleep_and_retry @limits) and the reactive *)
(* loop of _make_request.                                                  *)
(***************************************************************************)
CORE_CALLS    == 4500
CORE_PERIOD   == 3600
SEARCH_CALLS  == 25
SEARCH_PERIOD == 60
EXPIRE_AFTER  == 604800       \* get_http_client(expire_after=...)

MaxGwCalls == 2      \* gateway calls in one behaviour
MaxRetries == 1      \* rate-limit responses the API gives to one call
MaxTicks   == 1      \* times the clock moves between calls

GwPools == {"core", "search"}
\* the requests made: method + URL + params, and the endpoint method that makes it
GwRequests == { [endpoint |-> "search", url |-> "GET /search/repositories?q=stars:>1000&page=1"],
                [endpoint |-> "metadata", url |-> "GET /repos/a/x"] }
TickSteps == {SEARCH_PERIOD, EXPIRE_AFTER}
\* X-RateLimit-Reset of a rate-limit response, in seconds from now
ResetDeltas == {-5, 3599, 3600}
\* Retry-After of a rate-limit response
RetryAfterVals == {0, 3600}
\* X-RateLimit-Remaining of another response
RemainingVals == {<<>>, <<5>>}

VARIABLES
  gw_now,        \* time.time()
  gw_pc,         \* position of the caller
  gw_call,       \* the request of the call in progress, <<>> none
  gw_cache,      \* session.cache: request -> <<>> or <<[stored_at, status]>>
  pool,          \* the two @limits decorators: num_calls, last_reset
  gw_resp,       \* the response in hand, <<>> none
  gw_result,     \* what the last call ended in
  gw_tripped,    \* the circuit breaker raised in the call in progress
  gw_retries,    \* rate-limit responses handled in the call in progress
  gw_live,       \* history: live requests sent in the call in progress
  gw_pause,      \* history: the last sleep, <<>> none
  gw_low,        \* history: the last live response was low on quota and no time has passed since
  gw_after_low,  \* history: the last live request was sent in such a moment
  gw_calls,      \* history: calls made
  gw_ticks       \* history: moves of the clock

gwVars == << gw_now, gw_pc, gw_call, gw_cache, pool, gw_resp, gw_result, gw_tripped,
             gw_retries, gw_live, gw_pause, gw_low, gw_after_low, gw_calls, gw_ticks >>

Limit(p) == IF p = "core" THEN [calls |-> CORE_CALLS, period |-> CORE_PERIOD]
            ELSE [calls |-> SEARCH_CALLS, period |-> SEARCH_PERIOD]
\* search_repositories uses _make_search_request, the others _make_core_request
PoolOf(req) == IF req.endpoint = "search" THEN "search" ELSE "core"

\* the responses the API can give at time now
PlainResponses ==
  { [status |-> sr[1], rl_text |-> FALSE, reset |-> <<>>, retry_after |-> <<>>,
     remaining |-> sr[2], from_cache |-> FALSE] :
       sr \in ({200} \X RemainingVals) \cup ({404, 403, 500} \X {<<>>}) }
LimitHeaders(now) ==
  { << <<now + d>>, <<>> >> : d \in ResetDeltas } \cup
  { << <<>>, <<r>> >> : r \in RetryAfterVals } \cup
  { << <<>>, <<>> >>, << <<now + 7199>>, <<0>> >> }
\* 429 with any of the headers; 403 "rate limit" with Retry-After or neither
LimitResponses(now) ==
  { [status |-> sh[1], rl_text |-> (sh[1] = 403), reset |-> sh[2][1],
     retry_after |-> sh[2][2], remaining |-> <<0>>, from_cache |-> FALSE] :
       sh \in ({429} \X LimitHeaders(now)) \cup
              ({403} \X { h \in LimitHeaders(now) : h[1] = <<>> }) }

\* mutant: the cache is never consulted
IsCached_Never(cache, req) == FALSE
\* _is_cached: session.cache.contains(key), which does not look at expiry
IsCached(cache, req) == cache[req] # <<>>

\* CachedSession: an entry is served while it has not expired
Fresh(cache, req, now) == cache[req] # <<>> /\ now < cache[req][1].stored_at + EXPIRE_AFTER
\* CachedSession: responses with allowable_codes are stored
Store(cache, req, resp, now) ==
  IF resp.status \in {200, 404}
  THEN [cache EXCEPT ![req] = << [stored_at |-> now, status |-> resp.status] >>]
  ELSE cache
CachedResponse(cache, req) ==
  [status |-> cache[req][1].status, rl_text |-> FALSE, reset |-> <<>>,
   retry_after |-> <<>>, remaining |-> <<>>, from_cache |-> TRUE]

\* mutant: only 429 counts as a rate limit
IsRateLimited_Only429(resp) == resp.status = 429
\* mutant: a low remaining quota is handled like a rate limit
IsRateLimited_OrLow(resp) ==
  \/ resp.status = 429
  \/ resp.status = 403 /\ resp.rl_text
  \/ resp.remaining # <<>> /\ resp.remaining[1] < 10
\* _make_request: 429, or 403 with 'rate limit' in the body
IsRateLimited(resp) == resp.status = 429 \/ (resp.status = 403 /\ resp.rl_text)

\* _handle_api_rate_limit: wait_seconds
WaitSeconds(resp, now) ==
  LET w == IF resp.reset # <<>> THEN resp.reset[1] - now + 1
           ELSE IF resp.retry_after # <<>> THEN resp.retry_after[1] + 1
           ELSE 60
  IN IF w < 0 THEN 1 ELSE w

\* mutant: the breaker trips at one hour already
BreakerTrips_AtHour(wait) == wait >= 3600
\* _handle_api_rate_limit: the circuit breaker
BreakerTrips(wait) == wait > 3600

\* how the endpoint method ends, given the response or the breaker's exception
GatewayOutcome(resp, tripped) ==
  IF tripped THEN "breaker"
  ELSE IF resp.status = 200 THEN "ok"
  ELSE IF resp.status = 404 THEN "not_found"
  ELSE "http_error"
\* search_repositories: response.raise_for_status(), then response.json()
SearchRepositories(o) == IF o = "ok" THEN "dict" ELSE "raised"
EndpointResult(req, o) ==
  IF req.endpoint = "search" THEN SearchRepositories(o) ELSE GetRepositoryMetadata(o)

GwInitVars ==
  /\ gw_now = 0
  /\ gw_pc = "idle"
  /\ gw_call = <<>>
  /\ gw_cache = [r \in GwRequests |-> <<>>]
  \* the windows as earlier calls left them: untouched, or one call short of full
  /\ pool \in [GwPools -> [num_calls : {0}, last_reset : {0}]] \cup
              { [p \in GwPools |-> [num_calls |-> Limit(p).calls - 1, last_reset |-> 0]] }
  /\ gw_resp = <<>>
  /\ gw_result = "none"
  /\ gw_tripped = FALSE
  /\ gw_retries = 0
  /\ gw_live = <<>>
  /\ gw_pause = <<>>
  /\ gw_low = FALSE
  /\ gw_after_low = FALSE
  /\ gw_calls = 0
  /\ gw_ticks = 0

\* a live request: the API answers, the session stores what it may
Live(resp) ==
  /\ gw_resp' = << resp >>
  /\ gw_cache' = Store(gw_cache, gw_call, resp, gw_now)
  /\ gw_live' = Append(gw_live, gw_call)
  /\ gw_low' = (resp.remaining # <<>> /\ resp.remaining[1] < 10)
  /\ gw_after_low' = gw_low

\* time.sleep(secs)
Sleep(why, secs) ==
  /\ gw_now' = gw_now + secs
  /\ gw_pause' = << [why |-> why, secs |-> secs] >>
  /\ gw_low' = (gw_low /\ secs = 0)

\* search_repositories / get_repository_metadata: the cache test
GwCall(req) ==
  /\ gw_pc = "idle"
  /\ gw_calls < MaxGwCalls
  /\ gw_calls' = gw_calls + 1
  /\ gw_call' = req
  /\ gw_pc' = IF IsCached(gw_cache, req) THEN "cached_get" ELSE "throttle"
  /\ UNCHANGED << gw_now, gw_cache, pool, gw_resp, gw_result, gw_tripped, gw_retries,
                  gw_live, gw_pause, gw_low, gw_after_low, gw_ticks >>

\* self.session.get(url, ...) on the cached branch
GwCachedGet ==
  /\ gw_pc = "cached_get"
  /\ IF Fresh(gw_cache, gw_call, gw_now)
     THEN /\ gw_resp' = << CachedResponse(gw_cache, gw_call) >>
          /\ UNCHANGED << gw_cache, gw_live, gw_low, gw_after_low >>
     ELSE \E resp \in PlainResponses \cup LimitResponses(gw_now) : Live(resp)
  /\ gw_pc' = "finish"
  /\ UNCHANGED << gw_now, gw_call, pool, gw_result, gw_tripped, gw_retries,
                  gw_pause, gw_calls, gw_ticks >>

\* @sleep_and_retry @limits(calls, period) around _make_core_request /
\* _make_search_request
GwThrottle ==
  /\ gw_pc = "throttle"
  /\ LET p == PoolOf(gw_call)
         period_remaining == Limit(p).period - (gw_now - pool[p].last_reset)
         window == IF period_remaining <= 0
                   THEN [num_calls |-> 0, last_reset |-> gw_now]
                   ELSE pool[p]
         counted == [window EXCEPT !.num_calls = @ + 1]
     IN /\ pool' = [pool EXCEPT ![p] = counted]
        /\ IF counted.num_calls > Limit(p).calls
           THEN /\ Sleep("throttle", period_remaining)
                /\ UNCHANGED gw_pc
           ELSE /\ gw_pc' = "request"
                /\ UNCHANGED << gw_now, gw_pause, gw_low >>
  /\ UNCHANGED << gw_call, gw_cache, gw_resp, gw_result, gw_tripped, gw_retries,
                  gw_live, gw_after_low, gw_calls, gw_ticks >>

\* _make_request: response = self.session.request(method, url, **kwargs).
\* The cache test of the caller has just failed and rate-limit responses are
\* not stored, so the session has no entry to serve: the request is live.
GwRequest ==
  /\ gw_pc = "request"
  /\ \E resp \in PlainResponses \cup
                 (IF gw_retries < MaxRetries THEN LimitResponses(gw_now) ELSE {}) :
       Live(resp)
  /\ gw_pc' = "inspect"
  /\ UNCHANGED << gw_now, gw_call, pool, gw_result, gw_tripped, gw_retries,
                  gw_pause, gw_calls, gw_ticks >>

\* _make_request: the status tests, with _handle_api_rate_limit
GwInspect ==
  /\ gw_pc = "inspect"
  /\ IF IsRateLimited(gw_resp[1])
     THEN LET wait_seconds == WaitSeconds(gw_resp[1], gw_now)
          IN IF BreakerTrips(wait_seconds)
             THEN /\ gw_tripped' = TRUE
                  /\ gw_pc' = "finish"
                  /\ UNCHANGED << gw_now, gw_pause, gw_low, gw_retries >>
             ELSE /\ Sleep("rate_limit", wait_seconds)
                  /\ gw_retries' = gw_retries + 1
                  /\ gw_pc' = "request"
                  /\ UNCHANGED gw_tripped
     ELSE /\ gw_pc' = "finish"
          /\ UNCHANGED << gw_now, gw_pause, gw_low, gw_retries, gw_tripped >>
  /\ UNCHANGED << gw_call, gw_cache, pool, gw_resp, gw_result, gw_live,
                  gw_after_low, gw_calls, gw_ticks >>

\* the endpoint method returns or raises; the call's locals are gone
GwFinish ==
  /\ gw_pc = "finish"
  /\ gw_result' = EndpointResult(gw_call,
                     GatewayOutcome(IF gw_tripped THEN <<>> ELSE gw_resp[1], gw_tripped))
  /\ gw_pc' = "idle"
  /\ gw_resp' = <<>>
  /\ gw_tripped' = FALSE
  /\ gw_retries' = 0
  /\ gw_live' = <<>>
  /\ gw_pause' = <<>>
  /\ gw_call' = <<>>
  /\ UNCHANGED << gw_now, gw_cache, pool, gw_low, gw_after_low, gw_calls, gw_ticks >>

\* time passes between calls
GwTick(d) ==
  /\ gw_pc = "idle"
  /\ gw_ticks < MaxTicks
  /\ gw_ticks' = gw_ticks + 1
  /\ gw_now' = gw_now + d
  /\ gw_low' = FALSE
  /\ UNCHANGED << gw_pc, gw_call, gw_cache, pool, gw_resp, gw_result, gw_tripped,
                  gw_retries, gw_live, gw_pause, gw_after_low, gw_calls >>

GwNext ==
  \/ \E req \in GwRequests : GwCall(req)
  \/ GwCachedGet
  \/ GwThrottle
  \/ GwRequest
  \/ GwInspect
  \/ GwFinish
  \/ \E d \in TickSteps : GwTick(d)

\* the gateway idle, for the specifications that do not call it
GwIdle ==
  /\ gw_now = 0
  /\ gw_pc = "off"
  /\ gw_call = <<>>
  /\ gw_cache = [r \in GwRequests |-> <<>>]
  /\ pool = [p \in GwPools |-> [num_calls |-> 0, last_reset |-> 0]]
  /\ gw_resp = <<>>
  /\ gw_result = "none"
  /\ gw_tripped = FALSE
  /\ gw_retries = 0
  /\ gw_live = <<>>
  /\ gw_pause = <<>>
  /\ gw_low = FALSE
  /\ gw_after_low = FALSE
  /\ gw_calls = 0
  /\ gw_ticks = 0

(***************************************************************************)
(* GIT SERVICE  (src/chatsbom/services/git_service.py)                     *)
(*                                                                         *)
(* A ref name is the sequence of its path components; a peeled entry of    *)
(* the advertisement carries the suffix "^{}" as its last component.  The  *)
(* ref map is a function from names to hashes.                             *)
(***************************************************************************)
cache_ttl == 604800

MaxGitCalls == 2     \* calls of get_repo_refs / resolve_ref in one behaviour
MaxGitTicks == 2     \* times the clock moves between calls

PEEL == "^{}"
\* the lines `git ls-remote` can print for the repository: hash and ref name
AdLines == { [sha |-> 1, ref |-> <<"HEAD">>],
             [sha |-> 2, ref |-> <<"refs", "heads", "v1">>],
             [sha |-> 3, ref |-> <<"refs", "tags", "v1">>],
             [sha |-> 4, ref |-> <<"refs", "tags", "v1", PEEL>>] }
\* an advertisement: some of the lines, each once, in any order
Advertisements ==
  { ad \in UNION { [1 .. n -> AdLines] : n \in 0 .. Cardinality(AdLines) } :
      \A i, j \in DOMAIN ad : i # j => ad[i] # ad[j] }
\* the names resolve_ref is asked for
RefNames == { <<"v1">>, <<"HEAD">>, <<"v2">>, <<"refs", "tags", "v1">> }
GitTickSteps == {1, cache_ttl - 1, cache_ttl}

VARIABLES
  git_now,          \* datetime.now(timezone.utc), in seconds
  git_remote,       \* what ls-remote prints for the repository
  git_cache,        \* the refs cache file: <<>> or <<[updated_at, data]>>
  ls_remote_count,  \* ls-remote subprocesses run
  git_result,       \* what the last get_repo_refs returned
  git_resolved,     \* what the last call returned if it was a resolve_ref, else <<>>
  git_seen_age,     \* history: age of the cache entry the last call read, <<>> none
  git_calls,        \* history: calls made
  git_ticks         \* history: moves of the clock

gitVars == << git_now, git_remote, git_cache, ls_remote_count, git_result,
              git_resolved, git_seen_age, git_calls, git_ticks >>

EmptyRefs == [k \in {} |-> 0]
\* refs[k] = v
Put(refs, k, v) == [x \in DOMAIN refs \cup {k} |-> IF x = k THEN v ELSE refs[x]]

\* _get_short_name; <<>> is None
GetShortName(ref_full) ==
  IF Len(ref_full) >= 2 /\ ref_full[1] = "refs" /\ ref_full[2] \in {"tags", "heads"}
  THEN SubSeq(ref_full, 3, Len(ref_full))
  ELSE <<>>

\* refs[name] = sha, and refs[short] = sha when the name has a short form
PutWithShort(refs, name, sha) ==
  LET short == GetShortName(name)
  IN IF short # <<>> THEN Put(Put(refs, name, sha), short, sha) ELSE Put(refs, name, sha)

\* mutant: a plain line always overwrites
KeepExisting_Never(refs, ref_full) == FALSE
\* get_repo_refs: a plain line is ignored when its name is already in the map
KeepExisting(refs, ref_full) == ref_full \in DOMAIN refs

\* get_repo_refs: the body of the loop over output.splitlines()
AddRefLine(refs, line) ==
  IF line.ref[Len(line.ref)] = PEEL
  THEN PutWithShort(refs, SubSeq(line.ref, 1, Len(line.ref) - 1), line.sha)
  ELSE IF KeepExisting(refs, line.ref) THEN refs
  ELSE PutWithShort(refs, line.ref, line.sha)

RECURSIVE ParseFrom(_, _, _)
ParseFrom(lines, i, refs) ==
  IF i > Len(lines) THEN refs ELSE ParseFrom(lines, i + 1, AddRefLine(refs, lines[i]))
\* get_repo_refs: the map built from the output of ls-remote
ParseLsRemote(output) == ParseFrom(output, 1, EmptyRefs)

\* mutant: branches are tried before tags
ResolveIn_HeadsFirst(refs, ref) ==
  IF ref \in DOMAIN refs THEN << refs[ref] >>
  ELSE IF (<<"refs", "heads">> \o ref) \in DOMAIN refs THEN << refs[<<"refs", "heads">> \o ref] >>
  ELSE IF (<<"refs", "tags">> \o ref) \in DOMAIN refs THEN << refs[<<"refs", "tags">> \o ref] >>
  ELSE <<>>

\* mutant: an entry exactly as old as the TTL is still served
CacheYoung_Inclusive(age, ttl) == age <= ttl
\* get_repo_refs: (now - updated_dt).total_seconds() < cache_ttl
CacheYoung(age, ttl) == age < ttl

\* resolve_ref: exact match, then refs/tags/, then refs/heads/; <<>> is None
ResolveIn(refs, ref) ==
  IF ref \in DOMAIN refs THEN << refs[ref] >>
  ELSE IF (<<"refs", "tags">> \o ref) \in DOMAIN refs THEN << refs[<<"refs", "tags">> \o ref] >>
  ELSE IF (<<"refs", "heads">> \o ref) \in DOMAIN refs THEN << refs[<<"refs", "heads">> \o ref] >>
  ELSE <<>>

GitInitVars ==
  /\ git_now = 0
  /\ git_remote \in Advertisements
  /\ git_cache = <<>>
  /\ ls_remote_count = 0
  /\ git_result = [refs |-> EmptyRefs, is_cached |-> FALSE, failed |-> FALSE]
  /\ git_resolved = <<>>
  /\ git_seen_age = <<>>
  /\ git_calls = 0
  /\ git_ticks = 0

\* mutant: the cache file is written whatever the lookup returned
ShouldCacheRefs_Always(use_cache, refs) == use_cache
\* get_repo_refs, line 77: if cache_path and refs
ShouldCacheRefs(use_cache, refs) == use_cache /\ DOMAIN refs # {}

\* get_repo_refs(owner, repo, cache_path) as a function of the cache file, the
\* clock and the remote: what it returns, the cache file it leaves and the
\* number of ls-remote runs.  use_cache: a cache_path was given; fails:
\* ls-remote raises
RefsLookup(cache, now, remote, use_cache, fails) ==
  IF /\ use_cache
     /\ cache # <<>>
     /\ CacheYoung(now - cache[1].updated_at, cache_ttl)
  THEN [refs |-> cache[1].data, is_cached |-> TRUE, failed |-> FALSE,
        cache |-> cache, live |-> 0]
  ELSE IF fails
  THEN [refs |-> EmptyRefs, is_cached |-> FALSE, failed |-> TRUE,
        cache |-> cache, live |-> 1]
  ELSE LET refs == ParseLsRemote(remote)
       IN [refs |-> refs, is_cached |-> FALSE, failed |-> FALSE,
           cache |-> IF ShouldCacheRefs(use_cache, refs)
                     THEN << [updated_at |-> now, data |-> refs] >>
                     ELSE cache,
           live |-> 1]

\* a call of get_repo_refs
RepoRefs(use_cache, fails) ==
  /\ git_calls < MaxGitCalls
  /\ git_calls' = git_calls + 1
  /\ git_seen_age' = IF use_cache /\ git_cache # <<>>
                     THEN << git_now - git_cache[1].updated_at >> ELSE <<>>
  /\ LET r == RefsLookup(git_cache, git_now, git_remote, use_cache, fails)
     IN /\ git_result' = [refs |-> r.refs, is_cached |-> r.is_cached, failed |-> r.failed]
        /\ git_cache' = r.cache
        /\ ls_remote_count' = ls_remote_count + r.live
  /\ UNCHANGED << git_now, git_remote, git_ticks >>

\* get_repo_refs called on its own
GetRepoRefs ==
  /\ \E use_cache, fails \in BOOLEAN : RepoRefs(use_cache, fails)
  /\ git_resolved' = <<>>

\* resolve_ref(owner, repo, ref, cache_path)
ResolveRef(ref) ==
  /\ \E use_cache, fails \in BOOLEAN : RepoRefs(use_cache, fails)
  /\ git_resolved' = << [ref |-> ref, sha |-> ResolveIn(git_result'.refs, ref),
                         is_cached |-> git_result'.is_cached,
                         num_refs |-> Cardinality(DOMAIN git_result'.refs)] >>

\* time passes between calls
GitTick(d) ==
  /\ git_ticks < MaxGitTicks
  /\ git_ticks' = git_ticks + 1
  /\ git_now' = git_now + d
  /\ UNCHANGED << git_remote, git_cache, ls_remote_count, git_result, git_resolved,
                  git_seen_age, git_calls >>

GitNext ==
  \/ GetRepoRefs
  \/ \E ref \in RefNames : ResolveRef(ref)
  \/ \E d \in GitTickSteps : GitTick(d)

\* the git service idle, for the specifications that do not call it
GitIdle ==
  /\ git_now = 0
  /\ git_remote = <<>>
  /\ git_cache = <<>>
  /\ ls_remote_count = 0
  /\ git_result = [refs |-> EmptyRefs, is_cached |-> FALSE, failed |-> FALSE]
  /\ git_resolved = <<>>
  /\ git_seen_age = <<>>
  /\ git_calls = 0
  /\ git_ticks = 0

\* Ref cache files found on disk at the start: none, or a JSON file left by an
\* earlier process.  get_repo_refs returns its 'data' object as it is, so the
\* file decides which keys resolve_ref sees; a file written by get_repo_refs
\* itself has every short name next to its full name, other files need not.
CachedKeys == { <<"v1">>, <<"refs", "tags", "v1">>, <<"refs", "heads", "v1">> }
CachedSha(k) == IF k = <<"v1">> THEN 5 ELSE IF k = <<"refs", "tags", "v1">> THEN 6 ELSE 7
CacheFiles ==
  { <<>> } \cup
  { << [updated_at |-> 0, data |-> [k \in K |-> CachedSha(k)]] >> : K \in SUBSET CachedKeys }

\* resolve_ref called on a repository whose cache file is already there
ResolveInitVars ==
  /\ git_now = 0
  /\ git_remote \in { a \in Advertisements : Len(a) <= 1 }
  /\ git_cache \in CacheFiles
  /\ ls_remote_count = 0
  /\ git_result = [refs |-> EmptyRefs, is_cached |-> FALSE, failed |-> FALSE]
  /\ git_resolved = <<>>
  /\ git_seen_age = <<>>
  /\ git_calls = 0
  /\ git_ticks = 0

ResolveNext ==
  \/ \E ref \in RefNames : ResolveRef(ref)
  \/ \E d \in GitTickSteps : GitTick(d)

(***************************************************************************)
(* COMMIT SERVICE  (src/chatsbom/services/commit_service.py)               *)
(*                                                                         *)
(* process_repo over the git service above, always with the repository's   *)
(* ref cache file.  The statistics object is fresh for each call.          *)
(***************************************************************************)
MaxCommitCalls == 2     \* calls of CommitService.process_repo in one behaviour

\* the repositories handed in: latest_stable_release.tag_name (<<>> none) and
\* default_branch
CommitRepos == [release : {<<>>, << <<"v1">> >>, << <<"v2">> >>},
                default_branch : {<<"v1">>, <<"v2">>}]

VARIABLES
  cs_last,     \* what the last process_repo did, <<>> before
  cs_calls     \* history: calls made

commitVars == << cs_last, cs_calls >>

\* CommitService.process_repo as a function of the repository, the cache file,
\* the clock and the remote; fails1, fails2: ls-remote raises in the first,
\* the second lookup
CommitProcess(repo, cache, now, remote, fails1, fails2) ==
  LET release == repo.release # <<>>
      ref1 == IF release THEN repo.release[1] ELSE repo.default_branch
      r1 == RefsLookup(cache, now, remote, TRUE, fails1)
      sha1 == ResolveIn(r1.refs, ref1)
      fallback == sha1 = <<>> /\ release
      r2 == RefsLookup(r1.cache, now, remote, TRUE, fails2)
      sha == IF fallback THEN ResolveIn(r2.refs, repo.default_branch) ELSE sha1
      is_cached == IF fallback THEN r2.is_cached ELSE r1.is_cached
  IN [ target |-> IF sha = <<>> THEN <<>>
                  ELSE << [ref |-> IF fallback THEN repo.default_branch ELSE ref1,
                           ref_type |-> IF release /\ ~fallback THEN "release" ELSE "branch",
                           commit_sha |-> sha[1]] >>,
       fallback |-> fallback,
       cache_hits |-> IF is_cached THEN 1 ELSE 0,
       api_requests |-> IF is_cached THEN 0 ELSE 1,
       enriched |-> IF sha = <<>> THEN 0 ELSE 1,
       failed |-> IF sha = <<>> THEN 1 ELSE 0,
       live |-> r1.live + (IF fallback THEN r2.live ELSE 0),
       cache |-> IF fallback THEN r2.cache ELSE r1.cache ]

CommitInitVars ==
  /\ cs_last = <<>>
  /\ cs_calls = 0

\* CommitService.process_repo(repository, stats, language)
CommitProcessRepo(repo) ==
  /\ cs_calls < MaxCommitCalls
  /\ cs_calls' = cs_calls + 1
  /\ \E fails1, fails2 \in BOOLEAN :
       LET out == CommitProcess(repo, git_cache, git_now, git_remote, fails1, fails2)
       IN /\ cs_last' = << [repo |-> repo, target |-> out.target, fallback |-> out.fallback,
                            cache_hits |-> out.cache_hits, api_requests |-> out.api_requests,
                            enriched |-> out.enriched, failed |-> out.failed,
                            live |-> out.live] >>
          /\ git_cache' = out.cache
          /\ ls_remote_count' = ls_remote_count + out.live
  /\ UNCHANGED << git_now, git_remote, git_result, git_resolved, git_seen_age,
                  git_calls, git_ticks >>

CommitNext ==
  \/ \E repo \in CommitRepos : CommitProcessRepo(repo)
  \/ \E d \in GitTickSteps : GitTick(d) /\ UNCHANGED commitVars

\* the commit service idle, for the specifications that do not call it
CommitIdle == CommitInitVars

(***************************************************************************)
(* FILE TREE  (GitService.get_repository_tree)                             *)
(*                                                                         *)
(* One call is one step.  The scratch directories are the entries of the   *)
(* temporary directory with the prefix chatsbom-tree-; mkdtemp names a new *)
(* one on every call.                                                      *)
(***************************************************************************)
MaxTreeCalls == 4    \* calls of get_repository_tree in one behaviour

\* what `git ls-tree -r --name-only` can print
TreeListings == { <<>>, <<"a">>, <<"a", "b">> }
\* where the body of the try block ends: a git command raises GitCommandError
\* or something else is raised in clone, fetch or ls-tree, or the list is built
TreeExits == { "clone_git_error", "clone_error", "fetch_git_error", "fetch_error",
               "ls_tree_git_error", "ls_tree_error", "success" }

VARIABLES
  tree_dirs,    \* scratch directories that exist
  tree_made,    \* scratch directories created so far (mkdtemp)
  tree_cache,   \* the tree cache file: <<>> absent, << files >>
  tree_last,    \* the last call: <<>> or << [exit, temp_dir, files] >>
  tree_calls    \* history: calls made

treeVars == << tree_dirs, tree_made, tree_cache, tree_last, tree_calls >>

\* a failed `git clone` removes what it created: the directory itself may be
\* gone or left empty; every other exit leaves the directory in place
DirAfterBody(exit) ==
  IF exit = "clone_git_error" THEN BOOLEAN ELSE { TRUE }

\* mutant: the scratch directory is removed at the end of the try block only
Cleanup_OnSuccess(dirs, temp_dir, exit) ==
  IF exit = "success" THEN dirs \ {temp_dir} ELSE dirs
\* finally: if temp_dir.exists(): shutil.rmtree(temp_dir, ignore_errors=True)
Cleanup(dirs, temp_dir, exit) == dirs \ {temp_dir}

\* the return value: the file list, or <<"None">> from the except clauses
TreeReturn(exit, files) == IF exit = "success" THEN << files >> ELSE << "None" >>

TreeInitVars ==
  /\ tree_dirs = {}
  /\ tree_made = 0
  /\ tree_cache = <<>>
  /\ tree_last = <<>>
  /\ tree_calls = 0

\* get_repository_tree answered from the cache file, before any directory is made
TreeCached(use_cache, readable) ==
  /\ use_cache /\ tree_cache # <<>> /\ readable
  /\ tree_last' = << [exit |-> "cached", temp_dir |-> 0, result |-> << tree_cache[1] >>] >>
  /\ UNCHANGED << tree_dirs, tree_made, tree_cache >>

\* get_repository_tree through a blobless clone in a scratch directory
TreeCloned(use_cache, readable, exit, files, kept, saved) ==
  /\ ~(use_cache /\ tree_cache # <<>> /\ readable)
  /\ LET temp_dir == tree_made + 1
         after_body == IF kept THEN tree_dirs \cup {temp_dir} ELSE tree_dirs
     IN /\ tree_made' = temp_dir
        /\ tree_dirs' = Cleanup(after_body, temp_dir, exit)
        /\ tree_last' = << [exit |-> exit, temp_dir |-> temp_dir,
                            result |-> TreeReturn(exit, files)] >>
        /\ tree_cache' = IF exit = "success" /\ use_cache /\ files # <<>> /\ saved
                         THEN << files >> ELSE tree_cache

\* get_repository_tree(owner, repo, sha, cache_path)
GetRepositoryTree ==
  /\ tree_calls < MaxTreeCalls
  /\ tree_calls' = tree_calls + 1
  /\ \E use_cache, readable \in BOOLEAN :
       \/ TreeCached(use_cache, readable)
       \/ \E exit \in TreeExits, files \in TreeListings, saved \in BOOLEAN :
            \E kept \in DirAfterBody(exit) :
              TreeCloned(use_cache, readable, exit, files, kept, saved)

TreeNext == GetRepositoryTree

\* the tree fetcher idle, for the specifications that do not call it
TreeIdle == TreeInitVars

(***************************************************************************)
(* SBOM SERVICE  (src/chatsbom/services/sbom_service.py)                   *)
(*                                                                         *)
(* A directory is a function from relative paths (sequences of path        *)
(* components) to file contents (sequences of bytes).  SHA-256 is taken to *)
(* be injective: a digest is the byte stream fed to the hasher.            *)
(***************************************************************************)
MaxHashCalls == 2    \* calls of _calculate_dir_hash compared with each other
MaxSbomCalls == 2    \* calls of SbomService.process_repo in one behaviour

FilePaths == { <<"a">>, <<"b">>, <<"d", "a">> }
FileContents == { <<"x">>, <<"y">> }
Dirs == UNION { [S -> FileContents] : S \in SUBSET FilePaths }
\* the orders in which rglob can hand out the files of a directory
Enumerations(S) ==
  { e \in [1..Cardinality(S) -> S] : \A i, j \in 1..Cardinality(S) : e[i] = e[j] => i = j }

\* Path.__lt__ on the paths above: by components, left to right
PathOrder == << <<"a">>, <<"b">>, <<"d", "a">> >>
\* mutant: the files are hashed in the order rglob yields them
SortedFiles_AsEnumerated(files) == files
\* sorted([f for f in directory.rglob('*') if f.is_file()])
SortedFiles(files) ==
  SelectSeq(PathOrder, LAMBDA p : \E i \in DOMAIN files : files[i] = p)

\* str(rel_path).encode()
RECURSIVE PathStr(_)
PathStr(p) == IF Len(p) = 1 THEN << p[1] >> ELSE << p[1], "/" >> \o PathStr(Tail(p))

\* the hasher.update calls of the loop, from file i on
RECURSIVE HashFrom(_, _, _)
HashFrom(dir, files, i) ==
  IF i > Len(files) THEN <<>>
  ELSE PathStr(files[i]) \o dir[files[i]] \o HashFrom(dir, files, i + 1)

\* _calculate_dir_hash(directory), files enumerated in the order enum
CalculateDirHash(dir, enum) == HashFrom(dir, SortedFiles(enum), 1)

\* ---- text files ---------------------------------------------------------
\* newline=None on reading: "\r\n" and "\r" become "\n"
RECURSIVE UniversalNewlines(_)
UniversalNewlines(bytes) ==
  IF bytes = <<>> THEN <<>>
  ELSE IF bytes[1] = "CR"
  THEN IF Len(bytes) > 1 /\ bytes[2] = "LF"
       THEN << "LF" >> \o UniversalNewlines(SubSeq(bytes, 3, Len(bytes)))
       ELSE << "LF" >> \o UniversalNewlines(Tail(bytes))
  ELSE << bytes[1] >> \o UniversalNewlines(Tail(bytes))
\* open(path, encoding='utf-8').read()
ReadText(bytes) == UniversalNewlines(bytes)
\* open(path, 'w', encoding='utf-8').write(text), os.linesep = "\n"
WriteText(text) == text
\* subprocess.run(..., capture_output=True, text=True).stdout
CapturedText(bytes) == UniversalNewlines(bytes)

\* what `syft dir:... -o json` prints when it succeeds: JSON, lines ended by LF
SyftOutputs == { << "{1}", "LF" >>, << "{2}", "LF" >> }
SyftOutcomes == { "ok", "called_process_error", "error" }

SbomProjects == { "p1", "p2" }
\* the record's local_content_path: absent, a directory that is gone, a path
\* outside content_dir, or the project's directory
PathKinds == { "no_path", "missing_dir", "bad_path", "dir" }
\* the directories the projects hold in the stage runs: p1 a file a with
\* content x, p2 the same or another content; p1 may have an sbom.json of an
\* earlier run
SbomDirs == { d \in Dirs : DOMAIN d = { <<"a">> } }

\* PathConfig.get_sbom_cache_path(owner, repo, ref, content_hash)
CachePathParams == << "owner", "repo", "ref", "content_hash" >>
\* mutant: the path function takes the digest alone
GetSbomCachePath_ByHash(args) == "path"
\* a call of get_sbom_cache_path with the positional arguments args
GetSbomCachePath(args) ==
  IF Len(args) = Len(CachePathParams) THEN "path" ELSE "TypeError"

VARIABLES
  sb_dirs,       \* project -> directory under content_dir
  sb_output,     \* project -> sbom.json under sbom_dir: <<>> absent, << bytes >>
  sb_cache,      \* digest -> bytes of the cache entry (a function, growing)
  sb_stats,      \* SbomStats counters
  sb_tool_runs,  \* history: invocations of syft
  sb_last,       \* the last process_repo: <<>> or << record >>
  sb_calls,      \* history: calls made
  sb_seen        \* history: _calculate_dir_hash calls as [dir, enum, digest]

sbomVars == << sb_dirs, sb_output, sb_cache, sb_stats, sb_tool_runs, sb_last, sb_calls, sb_seen >>

ZeroSbomStats == [generated |-> 0, skipped |-> 0, failed |-> 0, cache_hits |-> 0]
EmptyCache == [k \in {} |-> <<>>]

\* cache entries found on disk at the start, keyed by digest: any of the
\* directories may have an entry left by an earlier run
CacheStarts ==
  { [h \in K |-> WriteText(<< "{9}", "LF" >>)] :
      K \in SUBSET UNION { { CalculateDirHash(d, e) : e \in Enumerations(DOMAIN d) } : d \in SbomDirs } }

SbomInitVars ==
  /\ sb_dirs \in { f \in [SbomProjects -> SbomDirs] : f["p1"][<<"a">>] = <<"x">> }
  /\ sb_output \in { f \in [SbomProjects -> { <<>>, << WriteText(<< "{0}", "LF" >>) >> }] :
                       f["p2"] = <<>> }
  /\ sb_cache \in CacheStarts
  /\ sb_stats = ZeroSbomStats
  /\ sb_tool_runs = 0
  /\ sb_last = <<>>
  /\ sb_calls = 0
  /\ sb_seen = {}

\* SbomService.process_repo as a function of its inputs and the files: the
\* record of what it did and the files after it
SbomProcess(project, kind, forced, enum, tool, stdout, copied, cached) ==
  LET dir == sb_dirs[project]
      content_hash == CalculateDirHash(dir, enum)
      cache_path == GetSbomCachePath(<< content_hash >>)
      entry == content_hash \in DOMAIN sb_cache
      base == [project |-> project, kind |-> kind, force |-> forced, tool |-> tool,
               stdout |-> CapturedText(stdout), digest |-> content_hash, entry |-> entry,
               had_output |-> sb_output[project] # <<>>,
               how |-> "", output |-> sb_output, cache |-> sb_cache,
               stats |-> sb_stats, runs |-> 0]
  IN IF kind = "no_path"
     THEN [base EXCEPT !.how = "no_path", !.stats = Inc(sb_stats, "skipped")]
     ELSE IF kind \in { "missing_dir", "bad_path" }
     THEN [base EXCEPT !.how = kind, !.stats = Inc(sb_stats, "failed")]
     ELSE IF ~forced /\ sb_output[project] # <<>>
     THEN [base EXCEPT !.how = "skip", !.stats = Inc(sb_stats, "skipped")]
     ELSE IF cache_path = "TypeError"
     THEN [base EXCEPT !.how = "TypeError"]
     ELSE IF ~forced /\ entry /\ copied
     THEN [base EXCEPT !.how = "cache",
                       !.output = [sb_output EXCEPT ![project] =
                                     << WriteText(ReadText(sb_cache[content_hash])) >>],
                       !.stats = Inc(Inc(sb_stats, "cache_hits"), "generated")]
     ELSE IF tool = "ok"
     THEN [base EXCEPT !.how = "tool", !.runs = 1,
                       !.output = [sb_output EXCEPT ![project] =
                                     << WriteText(CapturedText(stdout)) >>],
                       !.cache = IF cached
                                 THEN [h \in DOMAIN sb_cache \cup {content_hash} |->
                                         IF h = content_hash THEN WriteText(CapturedText(stdout))
                                         ELSE sb_cache[h]]
                                 ELSE sb_cache,
                       !.stats = Inc(sb_stats, "generated")]
     ELSE [base EXCEPT !.how = tool, !.runs = 1, !.stats = Inc(sb_stats, "failed")]

\* SbomService.process_repo(repo_dict, stats, language, force)
SbomProcessRepo(project, kind, forced) ==
  /\ sb_calls < MaxSbomCalls
  /\ sb_calls' = sb_calls + 1
  /\ \E enum \in Enumerations(DOMAIN sb_dirs[project]), tool \in SyftOutcomes,
        stdout \in SyftOutputs, copied, cached \in BOOLEAN :
       LET out == SbomProcess(project, kind, forced, enum, tool, stdout, copied, cached)
       IN /\ sb_last' = << [project |-> out.project, kind |-> out.kind, force |-> out.force,
                            tool |-> out.tool, stdout |-> out.stdout, digest |-> out.digest,
                            entry |-> out.entry, had_output |-> out.had_output,
                            how |-> out.how, runs |-> out.runs,
                            hits |-> out.stats.cache_hits - sb_stats.cache_hits] >>
          /\ sb_output' = out.output
          /\ sb_cache' = out.cache
          /\ sb_stats' = out.stats
          /\ sb_tool_runs' = sb_tool_runs + out.runs
  /\ UNCHANGED << sb_dirs, sb_seen >>

SbomNext ==
  \E project \in SbomProjects, kind \in PathKinds, forced \in BOOLEAN :
    SbomProcessRepo(project, kind, forced)

\* _calculate_dir_hash on its own: one more directory and enumeration order
DirHashCall(dir, enum) ==
  /\ Cardinality(sb_seen) < MaxHashCalls
  /\ sb_seen' = sb_seen \cup { [dir |-> dir, enum |-> enum, digest |-> CalculateDirHash(dir, enum)] }
  /\ UNCHANGED << sb_dirs, sb_output, sb_cache, sb_stats, sb_tool_runs, sb_last, sb_calls >>

DigestNext ==
  \E dir \in Dirs : \E enum \in Enumerations(DOMAIN dir) : DirHashCall(dir, enum)

\* directories whose files may hold bytes that also occur in file names
StreamPaths == { <<"a">>, <<"b">> }
StreamContents == { <<"x">>, <<"y">>, <<"x", "b", "y">> }
StreamDirs == UNION { [S -> StreamContents] : S \in SUBSET StreamPaths }
StreamNext ==
  \E dir \in StreamDirs : \E enum \in Enumerations(DOMAIN dir) : DirHashCall(dir, enum)

\* the SBOM service idle, for the specifications that do not call it
SbomIdle ==
  /\ sb_dirs = [p \in SbomProjects |-> EmptyCache]
  /\ sb_output = [p \in SbomProjects |-> <<>>]
  /\ sb_cache = EmptyCache
  /\ sb_stats = ZeroSbomStats
  /\ sb_tool_runs = 0
  /\ sb_last = <<>>
  /\ sb_calls = 0
  /\ sb_seen = {}

(***************************************************************************)
(* ENRICH COMMAND  (commands/enrich.py, services/enrichment_service.py)    *)
(*                                                                         *)
(* The pool's workers run EnrichmentService.process_repo on one shared     *)
(* EnrichStats.  `stats.x += n` is a read of the attribute and a later     *)
(* write of it; nothing is locked, so the two are separate steps.          *)
(***************************************************************************)
MaxEnrichInput == 3     \* repositories submitted to the pool

EnrichWorkers == { "e1", "e2" }
\* the counter additions one process_repo makes, in order: a repository that
\* is skipped, one that is enriched (metadata, releases, commit), one whose
\* enrich_item raises after the metadata call
EnrichPlans == { << <<"skipped", 1>> >>,
                 << <<"api_requests", 1>>, <<"api_requests", 2>>, <<"enriched", 1>> >>,
                 << <<"api_requests", 1>>, <<"failed", 1>> >> }

VARIABLES
  en_stats,     \* the EnrichStats object
  en_applied,   \* history: the sum of the additions made to each counter
  en_pc,        \* each worker: "idle", "load" (before the read), "store"
  en_todo,      \* each worker: the additions its process_repo still makes
  en_tmp,       \* each worker: the value it read
  en_left       \* repositories not yet handed to a worker

enrichVars == << en_stats, en_applied, en_pc, en_todo, en_tmp, en_left >>

ZeroEnrichStats == [enriched |-> 0, skipped |-> 0, failed |-> 0, api_requests |-> 0]

EnrichInitVars ==
  /\ en_stats = ZeroEnrichStats
  /\ en_applied = ZeroEnrichStats
  /\ en_pc = [w \in EnrichWorkers |-> "idle"]
  /\ en_todo = [w \in EnrichWorkers |-> <<>>]
  /\ en_tmp = [w \in EnrichWorkers |-> 0]
  /\ en_left \in 1 .. MaxEnrichInput

\* executor.submit(service.process_repo, repo, stats, lang, force)
EnrichSubmit(w, plan) ==
  /\ en_left > 0
  /\ en_pc[w] = "idle"
  /\ en_left' = en_left - 1
  /\ en_todo' = [en_todo EXCEPT ![w] = plan]
  /\ en_pc' = [en_pc EXCEPT ![w] = "load"]
  /\ UNCHANGED << en_stats, en_applied, en_tmp >>

\* stats.x += n: the read
EnrichLoad(w) ==
  /\ en_pc[w] = "load"
  /\ en_tmp' = [en_tmp EXCEPT ![w] = en_stats[Head(en_todo[w])[1]]]
  /\ en_pc' = [en_pc EXCEPT ![w] = "store"]
  /\ UNCHANGED << en_stats, en_applied, en_todo, en_left >>

\* stats.x += n: the write
EnrichStore(w) ==
  /\ en_pc[w] = "store"
  /\ LET x == Head(en_todo[w])[1]
         n == Head(en_todo[w])[2]
     IN /\ en_stats' = [en_stats EXCEPT ![x] = en_tmp[w] + n]
        /\ en_applied' = [en_applied EXCEPT ![x] = @ + n]
  /\ en_todo' = [en_todo EXCEPT ![w] = Tail(@)]
  /\ en_tmp' = [en_tmp EXCEPT ![w] = 0]
  /\ en_pc' = [en_pc EXCEPT ![w] = IF Tail(en_todo[w]) = <<>> THEN "idle" ELSE "load"]
  /\ UNCHANGED en_left

EnrichNext ==
  \E w \in EnrichWorkers :
    \/ \E plan \in EnrichPlans : EnrichSubmit(w, plan)
    \/ EnrichLoad(w)
    \/ EnrichStore(w)

\* the enrich command idle, for the specifications that do not run it
EnrichIdle ==
  /\ en_stats = ZeroEnrichStats
  /\ en_applied = ZeroEnrichStats
  /\ en_pc = [w \in EnrichWorkers |-> "idle"]
  /\ en_todo = [w \in EnrichWorkers |-> <<>>]
  /\ en_tmp = [w \in EnrichWorkers |-> 0]
  /\ en_left = 0

(***************************************************************************)
(* WORKER POOL AND USER INTERRUPT  (commands/github/commit.py, decorators) *)
(*                                                                         *)
(* `with ThreadPoolExecutor(...) as executor: executor.map(f, repos)`:     *)
(* map submits every record to the pool's queue at once, the end of the    *)
(* with-block joins the workers.  A worker leaves only when it finds the   *)
(* queue empty, so a KeyboardInterrupt in the main thread, which nothing   *)
(* turns into a cancellation of the queued records, leaves the queue to be *)
(* drained.                                                                *)
(***************************************************************************)
MaxPoolInput == 3      \* records in the input list of the interrupted run

PoolWorkers == { "t1", "t2" }

VARIABLES
  ex_input,        \* len(repos)
  ex_submitted,    \* records executor.map has put on the queue
  ex_taken,        \* records workers have taken off the queue
  ex_busy,         \* each worker: the record it runs, 0 when waiting
  ex_finished,     \* records whose process_single_repo returned
  ex_main,         \* main thread: "map", "join", "exit"
  ex_interrupted,  \* the user interrupt was delivered
  ex_late          \* history: records started after the interrupt

poolVars == << ex_input, ex_submitted, ex_taken, ex_busy, ex_finished, ex_main,
               ex_interrupted, ex_late >>

PoolInitVars ==
  /\ ex_input \in 1 .. MaxPoolInput
  /\ ex_submitted = 0
  /\ ex_taken = 0
  /\ ex_busy = [w \in PoolWorkers |-> 0]
  /\ ex_finished = {}
  /\ ex_main = "map"
  /\ ex_interrupted = FALSE
  /\ ex_late = {}

\* executor.map: submit(process_single_repo, repo) for the next record; after
\* the last one the with-block ends and shutdown(wait=True) joins the workers
PoolSubmit ==
  /\ ex_main = "map"
  /\ ex_submitted' = ex_submitted + 1
  /\ ex_main' = IF ex_submitted + 1 = ex_input THEN "join" ELSE "map"
  /\ UNCHANGED << ex_input, ex_taken, ex_busy, ex_finished, ex_interrupted, ex_late >>

\* a waiting worker takes the next queued record and starts process_single_repo
PoolStart(w) ==
  /\ ex_busy[w] = 0
  /\ ex_taken < ex_submitted
  /\ ex_taken' = ex_taken + 1
  /\ ex_busy' = [ex_busy EXCEPT ![w] = ex_taken + 1]
  /\ ex_late' = IF ex_interrupted THEN ex_late \cup {ex_taken + 1} ELSE ex_late
  /\ UNCHANGED << ex_input, ex_submitted, ex_finished, ex_main, ex_interrupted >>

\* process_single_repo returns
PoolFinish(w) ==
  /\ ex_busy[w] # 0
  /\ ex_finished' = ex_finished \cup {ex_busy[w]}
  /\ ex_busy' = [ex_busy EXCEPT ![w] = 0]
  /\ UNCHANGED << ex_input, ex_submitted, ex_taken, ex_main, ex_interrupted, ex_late >>

\* KeyboardInterrupt in the main thread: raised out of map or out of the join;
\* either way the with-block's exit (and the interpreter's exit after
\* handle_errors raised typer.Exit(130)) waits for the workers
PoolInterrupt ==
  /\ ex_main \in { "map", "join" }
  /\ ~ex_interrupted
  /\ ex_interrupted' = TRUE
  /\ ex_main' = "join"
  /\ UNCHANGED << ex_input, ex_submitted, ex_taken, ex_busy, ex_finished, ex_late >>

\* the join returns: the queue is empty and every worker has left
PoolExit ==
  /\ ex_main = "join"
  /\ ex_taken = ex_submitted
  /\ \A w \in PoolWorkers : ex_busy[w] = 0
  /\ ex_main' = "exit"
  /\ UNCHANGED << ex_input, ex_submitted, ex_taken, ex_busy, ex_finished,
                  ex_interrupted, ex_late >>

PoolNext ==
  \/ PoolSubmit
  \/ \E w \in PoolWorkers : PoolStart(w) \/ PoolFinish(w)
  \/ PoolInterrupt
  \/ PoolExit

\* no pool, for the specifications that do not run one
PoolIdle ==
  /\ ex_input = 0
  /\ ex_submitted = 0
  /\ ex_taken = 0
  /\ ex_busy = [w \in PoolWorkers |-> 0]
  /\ ex_finished = {}
  /\ ex_main = "exit"
  /\ ex_interrupted = FALSE
  /\ ex_late = {}

\* ---------------------------------------------------------------------
\* GIT SERVICE: WHAT THE LOG EVENTS CARRY
\* (services/git_service.py: the logger calls of get_repo_refs and
\*  get_repository_tree, and _mask_url).  A text is a sequence of words;
\*  the access token is one word of the remote URL.
\* ---------------------------------------------------------------------
MaxLogCalls == 3       \* calls of the two functions in one run

Secret == "secret_github_pat_12345"
Mask == "*****"
Tokens == { "", Secret }         \* GitService(token=None) or a token

\* url = f"https://{self.token}@github.com/{owner}/{repo}.git" when a
\* token is set, the plain URL otherwise
RemoteUrl(token) ==
    IF token # "" THEN << "https://", token, "@github.com/owner/repo.git" >>
    ELSE << "https://github.com/owner/repo.git" >>

\* _mask_url: url.replace(self.token, '*****') when the token is set and
\* occurs in the text, the text itself otherwise
MaskUrl(token, text) ==
    IF token # "" /\ (\E i \in DOMAIN text : text[i] = token)
    THEN [ i \in DOMAIN text |-> IF text[i] = token THEN Mask ELSE text[i] ]
    ELSE text

\* str(e) of a failing git call: a message of its own, or one that quotes
\* the remote URL the command was given
ErrorTexts(token) ==
    { << "fatal: repository not found" >>,
      << "fatal: unable to access" >> \o RemoteUrl(token) \o << "403" >> }

\* how the body of the try block ends
GitExits == { "ok", "GitCommandError", "Exception" }

VARIABLES gl_token, gl_events, gl_calls
logVars == << gl_token, gl_events, gl_calls >>

LogInitVars ==
    /\ gl_token \in Tokens
    /\ gl_events = << >>
    /\ gl_calls = 0

\* the events get_repo_refs logs for one way its try block ends
RefsEvents(token, exit, text) ==
    LET url == RemoteUrl(token) IN
    IF exit = "GitCommandError"
    THEN << [ event |-> "Git ls-remote failed",
              url |-> MaskUrl(token, url), error |-> MaskUrl(token, text) ] >>
    ELSE IF exit = "Exception"
    THEN << [ event |-> "Unexpected error in git ls-remote",
              url |-> MaskUrl(token, url), error |-> MaskUrl(token, text) ] >>
    ELSE << >>

\* the events get_repository_tree logs for one way its try block ends
TreeEvents(token, exit, text) ==
    IF exit = "GitCommandError"
    THEN << [ event |-> "Git tree fetch failed",
              url |-> << "owner/repo" >>, error |-> MaskUrl(token, text) ] >>
    ELSE IF exit = "Exception"
    THEN << [ event |-> "Unexpected error in git tree fetch",
              url |-> << "owner/repo" >>, error |-> text ] >>
    ELSE << >>

LogGetRepoRefs ==
    /\ gl_calls < MaxLogCalls
    /\ \E exit \in GitExits : \E text \in ErrorTexts(gl_token) :
         gl_events' = gl_events \o RefsEvents(gl_token, exit, text)
    /\ gl_calls' = gl_calls + 1
    /\ UNCHANGED gl_token

LogGetRepositoryTree ==
    /\ gl_calls < MaxLogCalls
    /\ \E exit \in GitExits : \E text \in ErrorTexts(gl_token) :
         gl_events' = gl_events \o TreeEvents(gl_token, exit, text)
    /\ gl_calls' = gl_calls + 1
    /\ UNCHANGED gl_token

LogNext == LogGetRepoRefs \/ LogGetRepositoryTree

LogIdle ==
    /\ gl_token = ""
    /\ gl_events = << >>
    /\ gl_calls = MaxLogCalls

\* a logged text that holds the token in cleartext
HasToken(text) == \E i \in DOMAIN text : text[i] = Secret

\* ---------------------------------------------------------------------
\* RELEASE SERVICE  (services/release_service.py, models/github_release.py)
\* One call of ReleaseService.process_repo over the releases the REST API
\* returned and the tags ls-remote returned.  A time is a number, 0 is null.
\* ---------------------------------------------------------------------
MaxReleases == 2       \* native releases of the repository

ReleaseTags == { "v1", "v2" }
PublishTimes == { 0, 2, 3 }
\* a release object of the REST API: the flags are named prerelease and draft
ReleaseJsons ==
    [ tag_name : ReleaseTags, published_at : PublishTimes, created_at : {1},
      prerelease : BOOLEAN, draft : BOOLEAN ]
\* the API has one release per tag name
ReleaseLists ==
    { l \in UNION { [1 .. n -> ReleaseJsons] : n \in 0 .. MaxReleases } :
        \A i, j \in DOMAIN l : l[i].tag_name = l[j].tag_name => i = j }
\* the short tag names of get_repo_refs
RemoteTagSets == SUBSET { "v2", "v9" }

\* GitHubRelease.model_validate(r_json): every field is read under its own
\* name (the model declares no alias), other keys are ignored, a field that
\* is not in the object takes its default
ReleaseValidate(j) ==
    [ tag_name |-> j.tag_name,
      published_at |-> j.published_at,
      created_at |-> j.created_at,
      is_prerelease |-> IF "is_prerelease" \in DOMAIN j THEN j.is_prerelease ELSE FALSE,
      is_draft |-> IF "is_draft" \in DOMAIN j THEN j.is_draft ELSE FALSE,
      source |-> "github_release" ]

\* key=lambda x: x.published_at or x.created_at or datetime.min
SortKey(e) ==
    IF e.published_at # 0 THEN e.published_at
    ELSE IF e.created_at # 0 THEN e.created_at ELSE 0
\* list.sort(key=..., reverse=True): descending, equal keys keep their order
RECURSIVE SortNewestFirst(_)
SortNewestFirst(s) ==
    IF s = << >> THEN << >>
    ELSE LET t == SortNewestFirst(SubSeq(s, 1, Len(s) - 1))
             e == s[Len(s)]
             p == Cardinality({ i \in DOMAIN t : SortKey(t[i]) >= SortKey(e) })
         IN SubSeq(t, 1, p) \o << e >> \o SubSeq(t, p + 1, Len(t))

\* lines 151-155: the first entry with both flags false, "" for None
FirstStable(entries) ==
    LET ok == { i \in DOMAIN entries :
                  ~entries[i].is_prerelease /\ ~entries[i].is_draft }
    IN IF ok = {} THEN ""
       ELSE entries[CHOOSE i \in ok : \A k \in ok : i <= k].tag_name

\* lines 115-116: the tags that have no release
BareTags(releases, tags) ==
    { t \in tags : \A i \in DOMAIN releases : releases[i].tag_name # t }

VARIABLES rl_releases, rl_tags, rl_pc, rl_result
releaseVars == << rl_releases, rl_tags, rl_pc, rl_result >>

ReleaseInitVars ==
    /\ rl_releases \in ReleaseLists
    /\ rl_tags \in RemoteTagSets
    /\ rl_pc = "call"
    /\ rl_result = [ kind |-> "none", latest |-> "" ]

\* ReleaseService.process_repo
ReleaseProcessRepo ==
    /\ rl_pc = "call"
    /\ rl_pc' = "done"
    /\ \/ \* lines 97-102: fetching the history raised
          rl_result' = [ kind |-> "failed", latest |-> "" ]
       \/ \* line 118: GitHubService has no get_commit_date, the call for the
          \* first tag without a release raises AttributeError
          /\ BareTags(rl_releases, rl_tags) # {}
          /\ rl_result' = [ kind |-> "raised", latest |-> "" ]
       \/ \* lines 104-159
          /\ BareTags(rl_releases, rl_tags) = {}
          /\ LET all_entries ==
                   SortNewestFirst([ i \in DOMAIN rl_releases |->
                                       ReleaseValidate(rl_releases[i]) ])
             IN rl_result' = [ kind |-> "enriched",
                               latest |-> FirstStable(all_entries) ]
    /\ UNCHANGED << rl_releases, rl_tags >>

ReleaseNext == ReleaseProcessRepo

ReleaseIdle ==
    /\ rl_releases = << >>
    /\ rl_tags = {}
    /\ rl_pc = "done"
    /\ rl_result = [ kind |-> "none", latest |-> "" ]

vars == << searchVars, storeVars, stageVars, gwVars, gitVars, commitVars, treeVars, sbomVars, enrichVars, poolVars, logVars, releaseVars >>

SearchNext ==
  \/ RunStart
  \/ SearchPage
  \/ Decide
  \/ SliceStep
  \/ SliceReturn
  \/ NewRun

SearchInit == SearchInitVars /\ StoreInitVars /\ StageIdle /\ GwIdle /\ GitIdle /\ CommitIdle /\ TreeIdle /\ SbomIdle /\ EnrichIdle /\ PoolIdle /\ LogIdle /\ ReleaseIdle
SpecSearch == SearchInit /\ [][SearchNext /\ UNCHANGED << storeVars, stageVars, gwVars, gitVars, commitVars, treeVars, sbomVars, enrichVars, poolVars, logVars, releaseVars >>]_vars
CrawlNext == SearchNext \/ SearchPageError \/ RunKilled
CrawlInit == SearchInitVars /\ pop \in CrawlPops /\ StoreInitVars /\ StageIdle /\ GwIdle /\ GitIdle /\ CommitIdle /\ TreeIdle /\ SbomIdle /\ EnrichIdle /\ PoolIdle /\ LogIdle /\ ReleaseIdle
SpecCrawl == CrawlInit /\ [][CrawlNext /\ UNCHANGED << storeVars, stageVars, gwVars, gitVars, commitVars, treeVars, sbomVars, enrichVars, poolVars, logVars, releaseVars >>]_vars
WallInit == SearchInitWall /\ StoreInitVars /\ StageIdle /\ GwIdle /\ GitIdle /\ CommitIdle /\ TreeIdle /\ SbomIdle /\ EnrichIdle /\ PoolIdle /\ LogIdle /\ ReleaseIdle
SpecWall == WallInit /\ [][SearchNext /\ UNCHANGED << storeVars, stageVars, gwVars, gitVars, commitVars, treeVars, sbomVars, enrichVars, poolVars, logVars, releaseVars >>]_vars
FairWall == SpecWall /\ WF_searchVars(SearchNext)
\* the crawler is one sequential program: while a step of it is possible, it
\* is taken
FairSearch == SpecSearch /\ WF_searchVars(SearchNext)

\* the store idle, for the specifications that do not run the crawler
SearchIdle ==
  /\ pop = [s \in Stars |-> <<0, 0>>]
  /\ min_stars = 1
  /\ current_max_stars = <<>>
  /\ spc = "idle"
  /\ page = 1
  /\ batch_count = 0
  /\ min_stars_in_batch = LARGE_INT
  /\ stack = <<>>
  /\ slice_stars = 0
  /\ out_file = [g \in Groups |-> {}]
  /\ out_lines = [g \in Groups |-> 0]
  /\ visited_ids = [g \in Groups |-> {}]
  /\ min_stars_seen = INF
  /\ runs = 1

StoreNext ==
  \/ StoreSave
  \/ StoreReopen

StoreInit == SearchIdle /\ StoreInitVars /\ StageIdle /\ GwIdle /\ GitIdle /\ CommitIdle /\ TreeIdle /\ SbomIdle /\ EnrichIdle /\ PoolIdle /\ LogIdle /\ ReleaseIdle
SpecStorage == StoreInit /\ [][StoreNext /\ UNCHANGED << searchVars, stageVars, gwVars, gitVars, commitVars, treeVars, sbomVars, enrichVars, poolVars, logVars, releaseVars >>]_vars

StoreKillNext == StoreNext \/ StoreKilledInSave
SpecStoreKill == StoreInit /\ [][StoreKillNext /\ UNCHANGED << searchVars, stageVars, gwVars, gitVars, commitVars, treeVars, sbomVars, enrichVars, poolVars, logVars, releaseVars >>]_vars

StoreFailNext == StoreNext \/ StoreSaveRaised
SpecStoreFail == StoreInit /\ [][StoreFailNext /\ UNCHANGED << searchVars, stageVars, gwVars, gitVars, commitVars, treeVars, sbomVars, enrichVars, poolVars, logVars, releaseVars >>]_vars

StageInit == SearchIdle /\ StoreInitVars /\ StageInitVars /\ GwIdle /\ GitIdle /\ CommitIdle /\ TreeIdle /\ SbomIdle /\ EnrichIdle /\ PoolIdle /\ LogIdle /\ ReleaseIdle
SpecStage == StageInit /\ [][StageNext /\ UNCHANGED << searchVars, gwVars, gitVars, commitVars, treeVars, sbomVars, enrichVars, poolVars, logVars, releaseVars >>]_vars

GwInit == SearchIdle /\ StoreInitVars /\ StageIdle /\ GwInitVars /\ GitIdle /\ CommitIdle /\ TreeIdle /\ SbomIdle /\ EnrichIdle /\ PoolIdle /\ LogIdle /\ ReleaseIdle
SpecGateway == GwInit /\ [][GwNext /\ UNCHANGED << searchVars, storeVars, stageVars, gitVars, commitVars, treeVars, sbomVars, enrichVars, poolVars, logVars, releaseVars >>]_vars

GitInit == SearchIdle /\ StoreInitVars /\ StageIdle /\ GwIdle /\ GitInitVars /\ CommitIdle /\ TreeIdle /\ SbomIdle /\ EnrichIdle /\ PoolIdle /\ LogIdle /\ ReleaseIdle
SpecGit == GitInit /\ [][GitNext /\ UNCHANGED << searchVars, storeVars, stageVars, gwVars, commitVars, treeVars, sbomVars, enrichVars, poolVars, logVars, releaseVars >>]_vars

ResolveInit == SearchIdle /\ StoreInitVars /\ StageIdle /\ GwIdle /\ ResolveInitVars /\ CommitIdle /\ TreeIdle /\ SbomIdle /\ EnrichIdle /\ PoolIdle /\ LogIdle /\ ReleaseIdle
SpecResolve == ResolveInit /\ [][ResolveNext /\ UNCHANGED << searchVars, storeVars, stageVars, gwVars, commitVars, treeVars, sbomVars, enrichVars, poolVars, logVars, releaseVars >>]_vars

CommitInit == SearchIdle /\ StoreInitVars /\ StageIdle /\ GwIdle /\ GitInitVars /\ CommitInitVars /\ TreeIdle /\ SbomIdle /\ EnrichIdle /\ PoolIdle /\ LogIdle /\ ReleaseIdle
SpecCommit == CommitInit /\ [][CommitNext /\ UNCHANGED << searchVars, storeVars, stageVars, gwVars, treeVars, sbomVars, enrichVars, poolVars, logVars, releaseVars >>]_vars

TreeInit == SearchIdle /\ StoreInitVars /\ StageIdle /\ GwIdle /\ GitIdle /\ CommitIdle /\ TreeInitVars /\ SbomIdle /\ EnrichIdle /\ PoolIdle /\ LogIdle /\ ReleaseIdle
SpecTree == TreeInit /\ [][TreeNext /\ UNCHANGED << searchVars, storeVars, stageVars, gwVars, gitVars, commitVars, sbomVars, enrichVars, poolVars, logVars, releaseVars >>]_vars

\* the two caches of GitService side by side: a repository without refs and
\* one with a branch; the clock moves by the time to live
CacheRemotes == { <<>>, << [sha |-> 2, ref |-> <<"refs", "heads", "v1">>] >> }
CachesNext ==
  \/ GetRepoRefs /\ UNCHANGED treeVars
  \/ GitTick(cache_ttl) /\ UNCHANGED treeVars
  \/ GetRepositoryTree /\ UNCHANGED gitVars
CachesInit == SearchIdle /\ StoreInitVars /\ StageIdle /\ GwIdle /\ GitInitVars /\ git_remote \in CacheRemotes /\ CommitIdle /\ TreeInitVars /\ SbomIdle /\ EnrichIdle /\ PoolIdle /\ LogIdle /\ ReleaseIdle
SpecCaches == CachesInit /\ [][CachesNext /\ UNCHANGED << searchVars, storeVars, stageVars, gwVars, commitVars, sbomVars, enrichVars, poolVars, logVars, releaseVars >>]_vars

SbomInit == SearchIdle /\ StoreInitVars /\ StageIdle /\ GwIdle /\ GitIdle /\ CommitIdle /\ TreeIdle /\ SbomInitVars /\ EnrichIdle /\ PoolIdle /\ LogIdle /\ ReleaseIdle
SpecSbom == SbomInit /\ [][SbomNext /\ UNCHANGED << searchVars, storeVars, stageVars, gwVars, gitVars, commitVars, treeVars, enrichVars, poolVars, logVars, releaseVars >>]_vars

DigestInit == SearchIdle /\ StoreInitVars /\ StageIdle /\ GwIdle /\ GitIdle /\ CommitIdle /\ TreeIdle /\ SbomIdle /\ EnrichIdle /\ PoolIdle /\ LogIdle /\ ReleaseIdle
SpecDigest == DigestInit /\ [][DigestNext /\ UNCHANGED << searchVars, storeVars, stageVars, gwVars, gitVars, commitVars, treeVars, enrichVars, poolVars, logVars, releaseVars >>]_vars
SpecStream == DigestInit /\ [][StreamNext /\ UNCHANGED << searchVars, storeVars, stageVars, gwVars, gitVars, commitVars, treeVars, enrichVars, poolVars, logVars, releaseVars >>]_vars

EnrichInit == SearchIdle /\ StoreInitVars /\ StageIdle /\ GwIdle /\ GitIdle /\ CommitIdle /\ TreeIdle /\ SbomIdle /\ EnrichInitVars /\ PoolIdle /\ LogIdle /\ ReleaseIdle
SpecEnrich == EnrichInit /\ [][EnrichNext /\ UNCHANGED << searchVars, storeVars, stageVars, gwVars, gitVars, commitVars, treeVars, sbomVars, poolVars, logVars, releaseVars >>]_vars

PoolInit == SearchIdle /\ StoreInitVars /\ StageIdle /\ GwIdle /\ GitIdle /\ CommitIdle /\ TreeIdle /\ SbomIdle /\ EnrichIdle /\ PoolInitVars /\ LogIdle /\ ReleaseIdle
SpecPool == PoolInit /\ [][PoolNext /\ UNCHANGED << searchVars, storeVars, stageVars, gwVars, gitVars, commitVars, treeVars, sbomVars, enrichVars, logVars, releaseVars >>]_vars

LogInit == SearchIdle /\ StoreInitVars /\ StageIdle /\ GwIdle /\ GitIdle /\ CommitIdle /\ TreeIdle /\ SbomIdle /\ EnrichIdle /\ PoolIdle /\ LogInitVars /\ ReleaseIdle
SpecLog == LogInit /\ [][LogNext /\ UNCHANGED << searchVars, storeVars, stageVars, gwVars, gitVars, commitVars, treeVars, sbomVars, enrichVars, poolVars, releaseVars >>]_vars

ReleaseInit == SearchIdle /\ StoreInitVars /\ StageIdle /\ GwIdle /\ GitIdle /\ CommitIdle /\ TreeIdle /\ SbomIdle /\ EnrichIdle /\ PoolIdle /\ LogIdle /\ ReleaseInitVars
SpecRelease == ReleaseInit /\ [][ReleaseNext /\ UNCHANGED << searchVars, storeVars, stageVars, gwVars, gitVars, commitVars, treeVars, sbomVars, enrichVars, poolVars, logVars >>]_vars

\* ---- what a finished first run should have written --------------------
Wanted(g) == IF g[1] >= min_stars THEN pop[g[1]][g[2]] ELSE 0
FileExact ==
  \A g \in Groups :
    /\ out_lines[g] = Wanted(g)
    /\ Size(out_file[g]) = Wanted(g)

\* C1: a run over a fresh output file ends with the file holding exactly the
\* population members with popularity >= min_stars, each written once.
C1_ExactUnion == (spc = "done" /\ runs = 1) => FileExact

\* ---- the store's save history ------------------------------------------
LinesFor(id) == Cardinality({i \in GoodLines(st_lines) : ParseLine(st_lines[i]).id = id})
FirstSaveOf(i) == \A j \in 1 .. (i - 1) : save_log[j][1] # save_log[i][1]

\* C2: the first save of an identifier returns true, every later save of that
\* identifier returns false, and the file holds exactly one line for it.
C2_SaveOnce ==
  /\ \A i \in 1 .. Len(save_log) : save_log[i][2] = FirstSaveOf(i)
  /\ \A i \in 1 .. Len(save_log) : LinesFor(save_log[i][1]) = 1
\* witness: an identifier saved twice, with different records, the second refused
C2_Witness ==
  \E i, j \in 1 .. Len(save_log) :
    /\ i < j /\ save_log[i][1] = save_log[j][1]
    /\ save_log[i][2] /\ ~save_log[j][2]
    /\ LinesFor(save_log[i][1]) = 1
    /\ Len(st_lines) = 2

(***************************************************************************)
(* Claims about a pipeline stage run twice                                 *)
(***************************************************************************)
SecondRunNoForce == stage_run = 2 /\ ~force
InOutput1(i) == input[i].id \in prev_ids

C5_BreakerAborts ==
  [][(breaker_tripped /\ stage_run' = stage_run) => next_idx' = next_idx]_vars

(***************************************************************************)
(* Claims about the gateway                                                *)
(***************************************************************************)
\* a 429 response, or a 403 response whose body mentions a rate limit
RateLimitResponse(r) == r.status = 429 \/ (r.status = 403 /\ r.rl_text)
Inspecting == gw_pc = "inspect" /\ RateLimitResponse(gw_resp[1])

\* C4: a rate-limit response whose computed wait exceeds 3600 seconds makes
\* _handle_api_rate_limit raise without sleeping, and _make_request sends no
\* further request; a wait of at most 3600 seconds never raises.
C4_Breaker ==
  [][ /\ Inspecting =>
           IF WaitSeconds(gw_resp[1], gw_now) > 3600
           THEN /\ gw_tripped' /\ gw_pc' = "finish"
                /\ gw_now' = gw_now /\ gw_pause' = gw_pause
           ELSE ~gw_tripped'
      /\ gw_tripped => (gw_pc = "finish" /\ gw_pc' = "idle")
    ]_vars

C4_Witness ==
  /\ gw_pc = "finish" /\ gw_tripped
  /\ WaitSeconds(gw_resp[1], gw_now) = 3601
  /\ gw_pause = <<>>

\* C6: in _make_request every rate-limit response with a computed wait of at
\* most one hour is followed by a sleep of that wait and a re-issue of the same
\* request; the response returned is never a rate-limit response.
C6_SleepAndRetry ==
  [][ /\ (Inspecting /\ WaitSeconds(gw_resp[1], gw_now) <= 3600) =>
           /\ gw_now' = gw_now + WaitSeconds(gw_resp[1], gw_now)
           /\ gw_pause' = << [why |-> "rate_limit", secs |-> WaitSeconds(gw_resp[1], gw_now)] >>
           /\ gw_pc' = "request" /\ gw_call' = gw_call
      /\ gw_pc = "request" =>
           /\ gw_call' = gw_call
           /\ gw_live' # gw_live => gw_live' = Append(gw_live, gw_call)
      /\ (gw_pc = "inspect" /\ gw_pc' = "finish" /\ ~gw_tripped') =>
           ~RateLimitResponse(gw_resp[1])
    ]_vars

C6_Witness ==
  /\ gw_pc = "finish" /\ ~gw_tripped
  /\ Len(gw_live) = 2 /\ gw_live[1] = gw_live[2]
  /\ gw_pause = << [why |-> "rate_limit", secs |-> 3600] >>
  /\ gw_resp[1].status = 200 /\ ~gw_resp[1].from_cache

C8_CacheBypass ==
  [][ /\ (gw_pc = "idle" /\ gw_pc' # "idle" /\ Fresh(gw_cache, gw_call', gw_now)) =>
           gw_pc' = "cached_get"
      /\ (gw_pc = "cached_get" /\ Fresh(gw_cache, gw_call, gw_now)) =>
           /\ gw_pc' = "finish" /\ gw_resp'[1].from_cache
           /\ gw_live' = gw_live /\ pool' = pool /\ gw_now' = gw_now
      /\ gw_pc = "finish" =>
           (gw_live' = <<>> /\ pool' = pool /\ gw_now' = gw_now)
    ]_vars

C8_Witness ==
  /\ gw_pc = "finish" /\ gw_resp[1].from_cache
  /\ gw_live = <<>>
  /\ pool[PoolOf(gw_call)].num_calls = Limit(PoolOf(gw_call)).calls
  /\ gw_ticks > 0

\* ---- how the records of a finished run ended ---------------------------
EndedAs(how) == { i \in DOMAIN input : outcome[i] = how }
\* the identifier under which record i is stored in the output file
StoredFor(i) ==
  \E id \in LoadIds(st_lines) :
    \/ id = input[i].id
    \/ stage = "repo" /\ id = repo_cache[input[i].full_name]

\* C17 (as stated): a record that fails is counted as failed and stops no other
\* record from being handled; when the run ends, every input record has ended
\* as exactly one of skipped, appended, failed.
C17_Original ==
  stage_pc = "finished" =>
    /\ stats.failed = Cardinality(EndedAs("failed"))
    /\ \A i \in DOMAIN input : outcome[i] \in { "skipped", "saved", "failed" }

\* C17 (amended): a record that fails is counted as failed and stops no other
\* record from being handled; when the run ends, every input record has ended
\* as exactly one of skipped, appended, failed, or transformed but not appended
\* because the output file already holds its identifier.
C17_EveryRecordEnds ==
  /\ stage_pc = "running" => ENABLED StageNext
  /\ stage_pc = "finished" =>
       /\ next_idx > Len(input)
       /\ stats.failed = Cardinality(EndedAs("failed"))
       /\ stats.skipped = Cardinality(EndedAs("skipped"))
       /\ \A i \in DOMAIN input :
            /\ outcome[i] \in { "skipped", "saved", "failed", "not_new" }
            /\ outcome[i] = "not_new" => StoredFor(i)

\* a run in which the first record failed and the second was appended
C17_Witness ==
  /\ stage_pc = "finished" /\ stage_run = 1 /\ Len(input) = 2
  /\ outcome[1] = "failed" /\ outcome[2] = "saved"
  /\ stats.failed = 1

\* the workers that hold the output file open for append (storage.py:58-60)
Appending == { w \in StageWorkers : wpc[w] = "save_write" }

\* C18: during a stage run with several workers, at most one worker at a time
\* is inside the physical append to the output file.
C18_OneWriter == Cardinality(Appending) <= 1

\* C19: the membership test and the insertion of Storage.save are atomic with
\* respect to other workers: of the calls that save one identifier, exactly
\* one returns true, and the output file has exactly one line for it.
C19_AtomicSave ==
  /\ \A i, j \in DOMAIN st_lines : st_lines[i].id = st_lines[j].id => i = j
  /\ \A v, w \in StageWorkers :
       (wpc[v] \in { "save_add", "save_open", "save_write" }
          /\ wpc[w] \in { "save_add", "save_open", "save_write" }
          /\ Validate(wout[v]).id = Validate(wout[w]).id) => v = w

(***************************************************************************)
(* Claims about the git service                                            *)
(***************************************************************************)
TagT == <<"refs", "tags", "v1">>
ShortT == <<"v1">>
BranchT == <<"refs", "heads", "v1">>
PosOf(ref) == IF \E i \in DOMAIN git_remote : git_remote[i].ref = ref
              THEN CHOOSE i \in DOMAIN git_remote : git_remote[i].ref = ref
              ELSE 0
ShaOf(ref) == git_remote[PosOf(ref)].sha
\* the advertisement has the tag object and its peeled entry, and the last
\* call returned a map built from it
BothTagLines ==
  /\ PosOf(TagT) > 0 /\ PosOf(TagT \o <<PEEL>>) > 0
  /\ git_calls > 0 /\ ~git_result.failed
Dereferenced == ShaOf(TagT \o <<PEEL>>)
ResolvedT(sha) ==
  (git_resolved # <<>> /\ git_resolved[1].ref = ShortT) => git_resolved[1].sha = << sha >>

\* C9 (as stated): with both refs/tags/T and refs/tags/T^{} advertised, in
\* either order, the map has the dereferenced hash under T and under
\* refs/tags/T, and resolve_ref(T) returns it.
C9_Original ==
  BothTagLines =>
    /\ git_result.refs[TagT] = Dereferenced
    /\ git_result.refs[ShortT] = Dereferenced
    /\ ResolvedT(Dereferenced)

\* what get_repo_refs does: with both lines advertised, in either order, the
\* map has the dereferenced hash under refs/tags/T; it has it under T too, and
\* resolve_ref(T) returns it, unless a line refs/heads/T follows the line
\* refs/tags/T^{}: then T maps to the branch's hash.
C9_DerefWins ==
  BothTagLines =>
    /\ git_result.refs[TagT] = Dereferenced
    /\ IF PosOf(BranchT) > PosOf(TagT \o <<PEEL>>)
       THEN git_result.refs[ShortT] = ShaOf(BranchT) /\ ResolvedT(ShaOf(BranchT))
       ELSE git_result.refs[ShortT] = Dereferenced /\ ResolvedT(Dereferenced)

C9_Witness ==
  /\ BothTagLines /\ ~git_result.is_cached
  /\ PosOf(TagT \o <<PEEL>>) < PosOf(TagT)
  /\ 0 < PosOf(BranchT) /\ PosOf(BranchT) < PosOf(TagT \o <<PEEL>>)
  /\ git_resolved # <<>>
  /\ git_resolved[1] = [ref |-> ShortT, sha |-> << Dereferenced >>,
                        is_cached |-> FALSE, num_refs |-> 3]

\* C10: get_repo_refs returns the cached ref set only when the entry is
\* younger than cache_ttl, and then runs no ls-remote; an entry as old as or
\* older than cache_ttl is not returned and one ls-remote is run.
C10_CacheTTL ==
  [][ git_calls' # git_calls =>
        /\ git_result'.is_cached =>
             /\ git_cache # <<>>
             /\ git_now - git_cache[1].updated_at < cache_ttl
             /\ git_result'.refs = git_cache[1].data
             /\ ls_remote_count' = ls_remote_count
        /\ (git_cache # <<>> /\ git_now - git_cache[1].updated_at >= cache_ttl) =>
             /\ ~git_result'.is_cached
             /\ ls_remote_count' = ls_remote_count + 1
    ]_vars

C10_Witness ==
  /\ git_seen_age = << cache_ttl >>
  /\ ~git_result.is_cached
  /\ ls_remote_count = 2
  /\ git_cache # <<>> /\ git_cache[1].updated_at = git_now

\* the three keys resolve_ref tries for a name, in the order of the claim
Candidates(name) == << name, <<"refs", "tags">> \o name, <<"refs", "heads">> \o name >>
PresentAt(name) == { i \in 1..3 : Candidates(name)[i] \in DOMAIN git_result.refs }

\* C12: resolve_ref(name) returns the hash of the first key present in the ref
\* map among name, refs/tags/name, refs/heads/name, in that order, and no hash
\* when none of the three is present.
C12_ResolveOrder ==
  git_resolved # <<>> =>
    LET name == git_resolved[1].ref
        present == PresentAt(name)
    IN /\ present = {} => git_resolved[1].sha = <<>>
       /\ present # {} =>
            git_resolved[1].sha = << git_result.refs[Candidates(name)[SetMin(present)]] >>

\* resolve_ref("v1") on a map without the key v1 that has refs/tags/v1 and
\* refs/heads/v1 with different hashes: the tag's hash is returned
C12_Witness ==
  /\ git_resolved # <<>> /\ git_resolved[1].ref = ShortT
  /\ PresentAt(ShortT) = {2, 3}
  /\ git_result.refs[TagT] # git_result.refs[BranchT]
  /\ git_resolved[1].sha = << git_result.refs[TagT] >>

(***************************************************************************)
(* Claims about the commit service                                         *)
(***************************************************************************)
\* the last process_repo fell back from an absent release tag to the default
\* branch, resolved it, and ran ls-remote on the way
FellBackLive ==
  /\ cs_last # <<>>
  /\ cs_last[1].fallback /\ cs_last[1].target # <<>>
  /\ cs_last[1].live > 0

\* C11: when the release tag is absent from the ref set, process_repo resolves
\* the default branch instead (target ref = default branch, kind = branch) and
\* the statistics count the record as a live lookup: api_requests incremented,
\* cache_hits not.
C11_FallbackIsLive ==
  FellBackLive =>
    /\ cs_last[1].target[1].ref = cs_last[1].repo.default_branch
    /\ cs_last[1].target[1].ref_type = "branch"
    /\ cs_last[1].api_requests = 1
    /\ cs_last[1].cache_hits = 0

C14_DigestOrderFree ==
  \A x, y \in sb_seen : x.dir = y.dir => x.digest = y.digest

\* two hashed directories with the same three files, enumerated in different
\* orders, none of them the sorted one
C14_Witness ==
  \E x, y \in sb_seen :
    /\ x.dir = y.dir /\ Cardinality(DOMAIN x.dir) = 3
    /\ x.enum # y.enum /\ x.enum # PathOrder /\ y.enum # PathOrder
    /\ x.digest = y.digest

\* the last process_repo was given an existing directory whose digest has a
\* cache entry, without force, and no output file stood in the way
WarmCall ==
  /\ sb_last # <<>> /\ sb_last[1].kind = "dir"
  /\ ~sb_last[1].force /\ ~sb_last[1].had_output
  /\ sb_last[1].entry

\* C15: when a cache entry exists for the directory's digest and force is not
\* set, process_repo does not invoke the external tool, writes an output file
\* byte-identical to the artifact stored for that digest, and increments the
\* cache-hit counter.
C15_WarmHit ==
  WarmCall =>
    /\ sb_last[1].runs = 0
    /\ sb_last[1].hits = 1
    /\ sb_output[sb_last[1].project] = << sb_cache[sb_last[1].digest] >>

\* the last process_repo was given an existing directory whose digest has no
\* cache entry, the output file is due, and syft succeeds on the directory
ColdCall ==
  /\ sb_last # <<>> /\ sb_last[1].kind = "dir"
  /\ sb_last[1].force \/ ~sb_last[1].had_output
  /\ ~sb_last[1].entry
  /\ sb_last[1].tool = "ok"

\* C16: on a cache miss with a successful tool run, process_repo writes the
\* tool's standard output verbatim both to the output file and to the cache
\* entry keyed by the directory digest, so the two files are byte-identical.
C16_ColdWrite ==
  ColdCall =>
    /\ sb_last[1].runs = 1
    /\ sb_output[sb_last[1].project] = << sb_last[1].stdout >>
    /\ sb_last[1].digest \in DOMAIN sb_cache
    /\ sb_cache[sb_last[1].digest] = sb_last[1].stdout

(***************************************************************************)
(* Claims about the counters                                               *)
(***************************************************************************)
\* every repository was handed to a worker and every worker has returned
EnrichDone == en_left = 0 /\ \A w \in EnrichWorkers : en_pc[w] = "idle"

\* C20: for any interleaving of the worker threads, the final value of each
\* counter equals its initial value (zero) plus the sum of the increments
\* applied to it: no increment is lost.
C20_NoLostIncrement ==
  EnrichDone => \A x \in DOMAIN en_stats : en_stats[x] = en_applied[x]

(***************************************************************************)
(* Claims about the worker pool                                            *)
(***************************************************************************)
\* C21: after a user interrupt during a stage run, no input record whose
\* processing has not yet started is started; only the records in flight run
\* to completion.
C21_NoStartAfterInterrupt == ex_late = {}

\* C22: no log event produced by get_repo_refs or get_repository_tree, on
\* the git-command-error path or on the path of any other exception,
\* holds the access token in cleartext.
C22_NoTokenInLogs ==
    \A i \in DOMAIN gl_events :
        ~HasToken(gl_events[i].url) /\ ~HasToken(gl_events[i].error)

\* C23: the record a stage appends to its output for an input record
\* carries the identifier of that input record; the metadata stage's cache,
\* keyed by owner/name, never makes a record with another id be written.
C23_SameIdentifier ==
    [][\A w \in StageWorkers :
         SaveWrite(w) => Validate(wout[w]).id = input[widx[w]].id]_vars

\* C24: _process_time_slice terminates for every finite population: a
\* split replaces the date range it took from the stack by ranges that are
\* not that range again, so the stack empties after finitely many queries,
\* also when 1000 repositories of one popularity value share a creation day.
C24_SliceTerminates ==
    [][(spc = "slice" /\ stack # <<>> /\ Len(stack') > Len(stack))
         => stack'[Len(stack')] # stack[Len(stack)]]_vars

ReturnsEarly == spc = "start" /\ min_stars_seen <= min_stars
AboveInFile ==
  \A g \in Groups : g[1] > min_stars => Size(out_file[g]) = pop[g[1]][g[2]]

\* C26: when run returns without a query because the store's least
\* popularity seen is <= min_stars, every repository of the population with
\* popularity above min_stars is in the output file, whatever the earlier
\* runs were (killed, or hit by an API error, at any point).
C26_EarlyReturnCovered == ReturnsEarly => AboveInFile

\* C27: for a process killed at any point, every record whose save returned
\* true (before the kill, or after the restart) is a complete line of the
\* file and is in the identifier set the next Storage construction builds;
\* only the record being written at the kill may be missing.
C27_SavedSurvive ==
  \A i \in 1 .. Len(save_log) :
    save_log[i][2] =>
      /\ save_log[i][1] \in LoadIds(st_lines)
      /\ LinesFor(save_log[i][1]) >= 1

\* C28: Storage.save never changes min_stars_seen; the value is computed
\* only when the store is constructed, by replaying the file, so after any
\* sequence of saves it is still the value of the construction.
C28_SaveKeepsMin ==
  [][StoreSave => st_min_stars_seen' = st_min_stars_seen]_vars
\* witness: after a construction over a written file, a save has written a
\* record with fewer stars than min_stars_seen, which still has the old value
C28_Witness ==
  /\ save_log # <<>> /\ save_log[Len(save_log)][2]
  /\ st_min_stars_seen # INF
  /\ LoadMin(st_lines) < st_min_stars_seen

\* ---- the latest stable release ------------------------------------------
\* the releases of the API, newest first, and the first of them that is
\* neither a prerelease nor a draft ("" when there is none)
StableByFlags ==
    LET sorted == SortNewestFirst(rl_releases)
        ok == { i \in DOMAIN sorted : ~sorted[i].prerelease /\ ~sorted[i].draft }
    IN IF ok = {} THEN ""
       ELSE sorted[CHOOSE i \in ok : \A k \in ok : i <= k].tag_name

\* C29: process_repo sets latest_stable_release to the first entry of the
\* chronologically sorted merged list whose prerelease and draft flags are
\* both false, and to none when no entry has both flags false.
C29_LatestStable ==
    (rl_pc = "done" /\ rl_result.kind = "enriched")
        => rl_result.latest = StableByFlags

\* ---- the transform and the identifier index -----------------------------
\* worker w calls the stage's transform in this step
Invokes(w) == TransformRepo(w) \/ TransformCommit(w) \/ TransformContent(w)

\* C30: in a run without force the transform is never invoked for a record
\* whose identifier is in the store's identifier index, in any interleaving
\* of the workers, also when an identifier occurs twice in the input.
C30_NoTransformOfVisited ==
    [][\A w \in StageWorkers :
         (Invokes(w) /\ ~force) => input[widx[w]].id \notin st_visited_ids]_vars

\* ---- the dense star wall ------------------------------------------------
\* the batch reached the cap, the ceiling was set, the least popularity of
\* the batch is the ceiling
AtStarWall ==
  /\ batch_count >= RESULT_CAP
  /\ current_max_stars # <<>>
  /\ min_stars_in_batch = current_max_stars[1]

\* C31: run hands a batch to time slicing exactly when the batch reached the
\* 1000-item cap, the ceiling was already set and the batch's least
\* popularity equals the ceiling; after time slicing at value v the next
\* ceiling is v - 1.
C31_SliceAtWall ==
  [][/\ (spc = "decide" /\ spc' = "slice") <=> (spc = "decide" /\ AtStarWall)
     /\ (spc = "slice" /\ spc' # "slice")
          => current_max_stars' = << slice_stars - 1 >>]_vars
\* witness: a run that came back from time slicing and goes on below it
C31_Witness ==
  /\ spc = "page" /\ stack = <<>>
  /\ slice_stars = 3
  /\ current_max_stars = << 2 >>
  /\ \A d \in 1 .. 2 : Size(out_file[<<3, d>>]) = pop[3][d]
  /\ pop[3][1] + pop[3][2] > RESULT_CAP

\* ---- a batch at the cap without a wall ----------------------------------
\* the batch reached the cap with least popularity m and is not a star wall
CapWithoutWall(m) ==
  /\ spc = "decide"
  /\ batch_count >= RESULT_CAP
  /\ ~AtStarWall
  /\ min_stars_in_batch = m
\* every repository with popularity m is in the output file
AllSaved(m) == \A d \in 1 .. 2 : Size(out_file[<<m, d>>]) = pop[m][d]

CeilingPasses(m) ==
  /\ runs' = runs
  /\ current_max_stars # <<>> /\ current_max_stars[1] >= m
  /\ current_max_stars' # <<>> /\ current_max_stars'[1] < m

\* C33: a page request that fails with HTTP 403 or 429 is, after the wait,
\* made again for the same page number, so no page of a batch is skipped;
\* and a page request that fails with another HTTP error never makes the
\* ceiling move below a popularity value whose repositories were not all
\* fetched and saved.
C33_PageRetried ==
  [][/\ PageFails("rate_limit") => (spc' = "page" /\ page' = page)
     /\ \A m \in 1 .. 3 : (CeilingPasses(m) /\ m > min_stars) => AllSaved(m)]_vars

\* C34: the byte stream _calculate_dir_hash feeds to the hasher is injective
\* on directory contents: two hashed directories whose sets of (relative
\* path, bytes) pairs differ never fed the same stream.  (A digest of the
\* model is the stream itself, so equal digests are equal streams.)
C34_StreamInjective ==
  \A x, y \in sb_seen : x.digest = y.digest => x.dir = y.dir

\* ---- one record per identifier ------------------------------------------
OneLinePerId ==
  \A i, j \in DOMAIN st_lines :
    (Parses(st_lines[i]) /\ Parses(st_lines[j])
       /\ ParseLine(st_lines[i]).id = ParseLine(st_lines[j]).id) => i = j
\* worker w, in a forced run, starts Storage.save with a record whose
\* identifier is already in the output file
ForcedSaveOfStored(w) ==
  /\ force /\ wpc[w] = "save_check"
  /\ Validate(wout[w]).id \in LoadIds(st_lines)

\* C36: after any sequence of stage runs, forced or not, the output file
\* holds at most one record per identifier; in a forced run the save of a
\* record whose identifier is already in the store returns false and appends
\* nothing, and no line already in the file is ever changed, so the line
\* first written for an identifier is the one that remains.
C36_OneRecordPerId ==
  /\ [](stage_pc = "finished" => OneLinePerId)
  /\ [][/\ \A w \in StageWorkers :
            (ForcedSaveOfStored(w) /\ wpc'[w] # wpc[w])
              => (outcome'[widx[w]] = "not_new" /\ st_lines' = st_lines)
        /\ \A i \in DOMAIN st_lines :
             i \in DOMAIN st_lines' /\ st_lines'[i] = st_lines[i]]_vars

\* ---- an append that raises ----------------------------------------------
\* C37: every identifier in Storage.visited_ids has a record line in the
\* output file, in every reachable state, also after a file append that
\* raised: a failed append leaves the identifier set unchanged (so a later
\* save of the same identifier in the same run still writes the record).
C37_VisitedHaveLines ==
  /\ [](st_visited_ids \subseteq LoadIds(st_lines))
  /\ [][\A item \in Items : AppendRaises(item) => st_visited_ids' = st_visited_ids]_vars

\* ---- the counters at the end of a run ------------------------------------
\* C38: at the end of a metadata or commit-resolution stage run every input
\* record has been counted exactly once: skipped + enriched + failed equals
\* the number of input records, on every path (cache hit, live success, not
\* found, exception).
C38_EveryRecordCounted ==
  (stage_pc = "finished" /\ stage \in { "repo", "commit" })
    => stats.skipped + stats.enriched + stats.failed = Len(input)

\* ---- what the caches of GitService hold ---------------------------------
\* the step is a call of get_repo_refs / of get_repository_tree
RefsCall == git_calls' = git_calls + 1
TreeCall == tree_calls' = tree_calls + 1
\* the last lookup failed and left no cache entry it could have used
RefsFailedUncached ==
  /\ git_calls > 0 /\ git_result.failed
  /\ (git_cache = <<>> \/ git_seen_age # <<>>)
TreeFailedUncached ==
  /\ tree_last # <<>> /\ tree_last[1].result = << "None" >>
  /\ tree_cache = <<>>

Reordered(ad) ==
  /\ Len(ad) = Len(git_remote)
  /\ { ad[i] : i \in DOMAIN ad } = { git_remote[i] : i \in DOMAIN git_remote }

\* C40: for a short name T that is both a branch and a tag of the repository,
\* the hash resolve_ref(T) returned is the hash it returns for every other
\* order of the same advertisement lines.
C40_OrderFree ==
  (/\ PosOf(BranchT) > 0 /\ PosOf(TagT) > 0
   /\ git_resolved # <<>> /\ git_resolved[1].ref = ShortT
   /\ ~git_result.failed)
    => \A ad \in Advertisements :
         Reordered(ad) => ResolveIn(ParseLsRemote(ad), ShortT) = git_resolved[1].sha

====
